---- MODULE Spec2Model ----
(***************************************************************************)
(* Verification model of the story-ingestion core of spectrum-podcast:     *)
(* time windows (workflow/index.ts, sources/gmail.ts), tracking-link       *)
(* unwrapping and redirect resolution (sources/gmail.ts), the RSS item     *)
(* filter (sources/rss.ts) and the source dispatcher (sources/index.ts).   *)
(*                                                                         *)
(* Instants are integers: milliseconds counted from 00:00:00 UTC of the    *)
(* civil day BaseDay (a day number since 1970-01-01), so that the values   *)
(* stay inside TLC's integers.  Calendar dates are <<year, month, day>>.   *)
(***************************************************************************)
EXTENDS Integers, Sequences, FiniteSets, TLC

VARIABLES
    \* ---- time-window resolver (buildTimeWindow, getYesterdayRangeInChicago)
    wNow,        \* the trigger instant
    wMode,       \* "calendar" | "rolling"
    wHours,      \* the rolling look-back, in hours
    wZone,       \* the IANA time zone handed to buildTimeWindow
    wHc,         \* hour cycle the runtime's Intl uses for hour12:false ("h23" | "h24")
    wResult,     \* what buildTimeWindow returned, or NoValue
    wRange,      \* what getYesterdayRangeInChicago returned, or NoValue
    \* ---- tracking-link unwrapping (unwrapTrackingUrl)
    uTarget,     \* the target a wrapped link was built from ([text |-> ...]), or NoValue
    uHref,       \* the href handed to unwrapTrackingUrl
    uResult,     \* what unwrapTrackingUrl did: a result, Throw, or NoValue
    \* ---- redirect resolution (resolveTrackingRedirect)
    rCache,      \* the Map handed to the calls: a function href -> resolved value
    rPc,         \* "idle" | "awaiting" (the probe is in flight) | "returned"
    rHref,       \* the href of the current call
    rLast,       \* how the last call ended: [href, via, outcome, value], or NoValue
    rProbes,     \* HTTP probes issued so far
    rCalls,      \* calls made so far
    \* ---- heuristic extractor, tracking-resolution stage (extractLinks)
    eAnchors,    \* the raw hrefs of the document's anchors, in document order
    eRules,      \* [resolveTrackingLinks |-> BOOLEAN]
    ePc,         \* "idle" | "resolving" | "resolved" | "rejected"
    eLinks,      \* per anchor [href, unwrapped, rawHref, pending]
    eCache,      \* trackingCache of this call
    eProbes,     \* the hrefs probed, in the order the probes were issued
    eTexts,      \* the display texts of the anchors, in document order
    eSettled,    \* per anchor, the href its probe settled on, or NoValue
    eResult,     \* the links extractLinks returned, or NoValue
    \* ---- the time filter of one source (fetchRssItems, fetchGmailItems)
    fNow,        \* the trigger instant
    fWindow,     \* the explicit window [start, end], or NoValue
    fCall,       \* "none" | "rss" | "gmail": which fetcher has run
    fInput,      \* the fetched feed document, or the fetched messages
    fOutput,     \* what the fetcher returned
    fLookback,   \* [n |-> the lookbackDays handed to fetchRssItems], NoValue before
    fContents,   \* per message, where the content handed to the link analysis came from
    \* ---- the source dispatcher (getStoriesFromSources)
    dSources,    \* the configured sources, in declared order
    dOptions,    \* the options of the call: [now, env, window]
    dPc,         \* "idle" | "awaiting" | "resolved" | "rejected": the call's promise
    dEnabled,    \* enabledSources
    dBranch,     \* per enabled source, its async callback: [pc, fetched, refs, got, ...]
    dGroups,     \* the slots of Promise.all, one per enabled source
    dResult,     \* groups.flat() once the call has resolved, NoValue before
    dOrder,      \* the enabled sources' indices in the order their branches settled
    \* ---- the workflow run (HackerNewsWorkflow.run)
    hEnv,        \* [testStep, skipTTS, gemini]: WORKFLOW_TEST_STEP, SKIP_TTS, TTS_PROVIDER
    hPc,         \* the step the run stands at, "done" (returned) or "failed" (threw)
    hStories,    \* [ids |-> the ids of the stories 'get stories' returned], NoValue before
    hIndex,      \* the story (or the dialogue line) the loop is at
    hLines,      \* the number of lines of the podcast text
    hAttempts,   \* failed attempts of the step at hand
    hLog,        \* the effects performed, in order: [op, story]
    hKv          \* the keys PODCAST_KV holds

\* extractNewsletterLinksWithAi: the link rules, the position of the call, the
\* number of createResponseText invocations, the response texts received, the
\* candidates of the Promise.all, the tracking cache, the probes issued and
\* the value returned
VARIABLES aRules, aPc, aCalls, aTexts, aLinks, aCache, aProbes, aResult

\* getContentFromJinaWithRetry: the options of the call, the position of the
\* call, the loop variable, the current retryDelayMs, the number of
\* getContentFromJina calls made, the errors they raised, the pauses slept
\* and how the call ended
VARIABLES jOptions, jPc, jAttempt, jDelay, jCalls, jErrors, jSleeps, jResult

\* the worker's handlers: the bindings of the worker, the hour cycle of the
\* runtime's Intl, the event received, the response given and the calls of
\* PODCAST_WORKFLOW.create made for it
VARIABLES kEnv, kHc, kEvent, kResponse, kCreated

varsW == <<wNow, wMode, wHours, wZone, wHc, wResult, wRange>>

varsU == <<uTarget, uHref, uResult>>

varsR == <<rCache, rPc, rHref, rLast, rProbes, rCalls>>

varsE == <<eAnchors, eRules, ePc, eLinks, eCache, eProbes, eTexts, eSettled, eResult>>

varsF == <<fNow, fWindow, fCall, fInput, fOutput, fLookback, fContents>>

varsD == <<dSources, dOptions, dPc, dEnabled, dBranch, dGroups, dResult, dOrder>>

varsA == <<aRules, aPc, aCalls, aTexts, aLinks, aCache, aProbes, aResult>>

varsJ == <<jOptions, jPc, jAttempt, jDelay, jCalls, jErrors, jSleeps, jResult>>

varsK == <<kEnv, kHc, kEvent, kResponse, kCreated>>

varsH == <<hEnv, hPc, hStories, hIndex, hLines, hAttempts, hLog, hKv>>

vars == <<varsW, varsU, varsR, varsE, varsF, varsD, varsA, varsJ, varsK, varsH>>

NoValue == [none |-> TRUE]

\* an exception leaving the function
Throw == [kind |-> "throw"]

------------------------------------------------------------------------------
(* Bounds of the model                                                      *)

\* the trigger instants examined lie on the days BaseDay .. BaseDay + MaxDay
MaxDay == 2

\* characters of a wrapped target after its host
MaxTail == 3

\* query parameters of an href handed to unwrapTrackingUrl
MaxParams == 2

\* successive calls of resolveTrackingRedirect on one cache
MaxCalls == 3

\* anchors of a document handed to extractLinks
MaxAnchors == 3

\* items of a feed, messages of a mailbox listing
MaxItems == 2
MaxMessages == 2

\* sources of a configuration
MaxSources == 2

\* stories of a run, dialogue lines of a podcast text
MaxStories == 2
MaxLines == 2

\* the longest run of links in a model response
MaxLinks == 12

\* the anchors of a document whose hrefs are under test for their probes
MaxTracked == 2

\* anchors of a document under test for the path filter and the score
MaxScored == 2

\* the largest retryLimit handed to getContentFromJinaWithRetry
MaxRetryLimit == 3

------------------------------------------------------------------------------
(* Calendar arithmetic of Date.UTC and Intl.DateTimeFormat                  *)

HourMs == 60 * 60 * 1000
\* src/unnamed/part_012:1290  ONE_DAY_MS = 24 * 60 * 60 * 1000
ONE_DAY_MS == 24 * 60 * 60 * 1000

\* days since 1970-01-01 of the proleptic Gregorian date y-m-d (m in 1..12)
DaysFromCivil(y, m, d) ==
    LET yy  == IF m <= 2 THEN y - 1 ELSE y
        era == yy \div 400
        yoe == yy - era * 400
        mp  == IF m > 2 THEN m - 3 ELSE m + 9
        doy == (153 * mp + 2) \div 5 + d - 1
        doe == yoe * 365 + yoe \div 4 - yoe \div 100 + doy
    IN  era * 146097 + doe - 719468

\* the Gregorian date <<y, m, d>> of day number z, by era (400 years), year
\* of era, day of year and month counted from March
CivilInMonth(y, mp, doy) ==
    <<IF mp < 10 THEN y ELSE y + 1,
      IF mp < 10 THEN mp + 3 ELSE mp - 9,
      doy - (153 * mp + 2) \div 5 + 1>>

CivilOnDay(y, doy) == CivilInMonth(y, (5 * doy + 2) \div 153, doy)

CivilInYear(era, yoe, doe) ==
    CivilOnDay(yoe + era * 400, doe - (365 * yoe + yoe \div 4 - yoe \div 100))

CivilInEra(era, doe) ==
    CivilInYear(era,
                (doe - doe \div 1460 + doe \div 36524 - doe \div 146096) \div 365,
                doe)

CivilFromDays(z) ==
    CivilInEra((z + 719468) \div 146097, (z + 719468) % 146097)

\* the model's day 0: 2024-03-09, the eve of the US spring-forward transition
BaseDay == DaysFromCivil(2024, 3, 9)

\* Date.UTC(year, month - 1, day, hour, minute, second), relative to BaseDay;
\* an hour of 24 carries into the next day as Date.UTC does
DateUTC(key, hour, minute, second) ==
    (DaysFromCivil(key[1], key[2], key[3]) - BaseDay) * ONE_DAY_MS
        + hour * HourMs + minute * 60 * 1000 + second * 1000

\* the time zones examined and their UTC offsets (ms, local = utc + offset).
\* America/Chicago leaves CST (-6h) for CDT (-5h) on 2024-03-10 at 08:00:00 UTC.
Zones == {"America/Chicago", "Etc/GMT+6", "UTC", "Asia/Shanghai"}

ChicagoSpringForward == DateUTC(<<2024, 3, 10>>, 8, 0, 0)

Offset(timeZone, t) ==
    CASE timeZone = "America/Chicago" ->
             IF t < ChicagoSpringForward THEN -6 * HourMs ELSE -5 * HourMs
      [] timeZone = "Etc/GMT+6"     -> -6 * HourMs
      [] timeZone = "UTC"           -> 0
      [] timeZone = "Asia/Shanghai" -> 8 * HourMs

\* the fields Intl.DateTimeFormat(..., {timeZone, hour12: false}).formatToParts
\* yields for instant t.  With hour12:false the en-US locale resolves to the
\* hour cycle h23 or h24 depending on the runtime's ECMA-402 edition; under h24
\* the hour of 00:mm:ss is formatted "24".
PartsOf(date, sod, hc) ==
    [year   |-> date[1], month |-> date[2], day |-> date[3],
     hour   |-> IF sod \div 3600 = 0 /\ hc = "h24" THEN 24 ELSE sod \div 3600,
     minute |-> (sod % 3600) \div 60,
     second |-> sod % 60]

PartsOfLocal(local, hc) ==
    PartsOf(CivilFromDays(BaseDay + local \div ONE_DAY_MS),
            (local % ONE_DAY_MS) \div 1000, hc)

FormatParts(t, timeZone, hc) == PartsOfLocal(t + Offset(timeZone, t), hc)

------------------------------------------------------------------------------
(* workflow/index.ts: the time-window resolver                              *)

\* `${year}-${month}-${day}` of the formatted parts
DateKeyOf(parts) == <<parts.year, parts.month, parts.day>>

getDateKeyInTimeZone(date, timeZone) ==
    DateKeyOf(FormatParts(date, timeZone, "h23"))

\* hour * 3600 + minute * 60 + second of the formatted parts
SecondsOfParts(parts) == parts.hour * 3600 + parts.minute * 60 + parts.second

\* (utcTime - tzTime) * 1000 where both are seconds since the local/UTC midnight
getTimeZoneOffsetMs(date, timeZone, hc) ==
    (SecondsOfParts(FormatParts(date, "UTC", hc))
        - SecondsOfParts(FormatParts(date, timeZone, hc))) * 1000

zonedTimeToUtc(dateKey, timeZone, hour, minute, second, hc) ==
    LET utcDate == DateUTC(dateKey, hour, minute, second)
        offset  == getTimeZoneOffsetMs(utcDate, timeZone, hc)
    IN  utcDate + offset

buildTimeWindow(now, mode, hours, timeZone, hc) ==
    IF mode = "rolling"
    THEN [windowStart   |-> now - hours * 60 * 60 * 1000,
          windowEnd     |-> now,
          windowDateKey |-> getDateKeyInTimeZone(now, timeZone)]
    ELSE LET yesterday == now - 24 * 60 * 60 * 1000
             dateKey   == getDateKeyInTimeZone(yesterday, timeZone)
         IN  [windowStart   |-> zonedTimeToUtc(dateKey, timeZone, 0, 0, 0, hc),
              windowEnd     |-> zonedTimeToUtc(dateKey, timeZone, 23, 59, 59, hc),
              windowDateKey |-> dateKey]

------------------------------------------------------------------------------
(* sources/gmail.ts: the mailbox source's "yesterday in Chicago" range      *)

CHICAGO_TIMEZONE == "America/Chicago"

\* Date.UTC(year, month - 1, day, hour, minute, second) of the formatted parts
DateUTCOfParts(p) == DateUTC(DateKeyOf(p), p.hour, p.minute, p.second)

\* Date.UTC of the zone's wall-clock fields, minus the instant itself
getTimeZoneOffsetMs_gmail(date, timeZone, hc) ==
    DateUTCOfParts(FormatParts(date, timeZone, hc)) - date

zonedTimeToUtc_gmail(dateKey, timeZone, hour, minute, second, hc) ==
    LET utcGuess == DateUTC(dateKey, hour, minute, second)
        offset   == getTimeZoneOffsetMs_gmail(utcGuess, timeZone, hc)
    IN  utcGuess - offset

getYesterdayRangeInChicago(now, hc) ==
    LET yesterday == now - ONE_DAY_MS
        dateKey   == getDateKeyInTimeZone(yesterday, CHICAGO_TIMEZONE)
    IN  [dateKey  |-> dateKey,
         startUtc |-> zonedTimeToUtc_gmail(dateKey, CHICAGO_TIMEZONE, 0, 0, 0, hc),
         endUtc   |-> zonedTimeToUtc_gmail(dateKey, CHICAGO_TIMEZONE, 23, 59, 59, hc)]

------------------------------------------------------------------------------
(* Text.  A string is the sequence of its character codes.                  *)

StartsWith(s, prefix) ==
    /\ Len(s) >= Len(prefix)
    /\ SubSeq(s, 1, Len(prefix)) = prefix

\* String.prototype.includes
Includes(s, sub) ==
    \E i \in 0..(Len(s) - Len(sub)) : SubSeq(s, i + 1, i + Len(sub)) = sub

\* String.prototype.toLowerCase on ASCII
ToLower(s) == [i \in 1..Len(s) |-> IF s[i] \in 65..90 THEN s[i] + 32 ELSE s[i]]

\* A-Z a-z 0-9 - _ . ! ~ * ' ( )
Unreserved(c) ==
    c \in (65..90) \cup (97..122) \cup (48..57) \cup {45, 95, 46, 33, 126, 42, 39, 40, 41}

HexDigit(n) == IF n < 10 THEN 48 + n ELSE 55 + n

\* the value of a hexadecimal digit, -1 for any other character
HexVal(c) ==
    IF c \in 48..57 THEN c - 48
    ELSE IF c \in 65..70 THEN c - 55
    ELSE IF c \in 97..102 THEN c - 87
    ELSE -1

IsEscapeAt(s, i) ==
    /\ s[i] = 37
    /\ i + 2 <= Len(s)
    /\ HexVal(s[i + 1]) >= 0
    /\ HexVal(s[i + 2]) >= 0

EscapeByte(s, i) == 16 * HexVal(s[i + 1]) + HexVal(s[i + 2])

\* encodeURIComponent on ASCII text: every character but the unreserved ones
\* becomes %XX
RECURSIVE encodeURIComponent(_)
encodeURIComponent(s) ==
    IF s = <<>> THEN <<>>
    ELSE LET c == Head(s)
         IN  (IF Unreserved(c) THEN <<c>>
              ELSE <<37, HexDigit(c \div 16), HexDigit(c % 16)>>)
                 \o encodeURIComponent(Tail(s))

\* percent-decoding that leaves a malformed escape as it is and turns a byte
\* that is no UTF-8 text into U+FFFD; with plusAsSpace it is the
\* application/x-www-form-urlencoded decoding of URLSearchParams
RECURSIVE PercentDecode(_, _)
PercentDecode(s, plusAsSpace) ==
    IF s = <<>> THEN <<>>
    ELSE IF IsEscapeAt(s, 1)
    THEN <<IF EscapeByte(s, 1) < 128 THEN EscapeByte(s, 1) ELSE 65533>>
             \o PercentDecode(SubSeq(s, 4, Len(s)), plusAsSpace)
    ELSE <<IF plusAsSpace /\ Head(s) = 43 THEN 32 ELSE Head(s)>>
             \o PercentDecode(Tail(s), plusAsSpace)

\* decodeURIComponent raises URIError on a % that does not start %XX and on an
\* escaped byte that is not part of a UTF-8 sequence (the texts examined are
\* too short to hold a multi-byte sequence, so every byte >= 0x80 is one)
MalformedURI(s) ==
    \E i \in 1..Len(s) :
        /\ s[i] = 37
        /\ (~IsEscapeAt(s, i) \/ EscapeByte(s, i) >= 128)

decodeURIComponent(s) ==
    IF MalformedURI(s) THEN Throw
    ELSE [kind |-> "ok", text |-> PercentDecode(s, FALSE)]

------------------------------------------------------------------------------
(* sources/gmail.ts: unwrapTrackingUrl.  An href that `new URL` parses is   *)
(* the record of its parts [valid, host, path, query], query being the      *)
(* name=value pairs in order with the raw (still encoded) values; an href   *)
(* it rejects has valid = FALSE.  A string a function computed is           *)
(* [text |-> characters].                                                   *)

\* 'list-manage.com', 'campaign-archive.com', 'mailchi.mp', 'clicks', 'links'
trackingHostnames ==
    << <<108, 105, 115, 116, 45, 109, 97, 110, 97, 103, 101, 46, 99, 111, 109>>,
       <<99, 97, 109, 112, 97, 105, 103, 110, 45, 97, 114, 99, 104, 105, 118, 101,
         46, 99, 111, 109>>,
       <<109, 97, 105, 108, 99, 104, 105, 46, 109, 112>>,
       <<99, 108, 105, 99, 107, 115>>,
       <<108, 105, 110, 107, 115>> >>

\* '/track/'
TrackSegment == <<47, 116, 114, 97, 99, 107, 47>>
\* 'http://' and 'https://'
HttpPrefix  == <<104, 116, 116, 112, 58, 47, 47>>
HttpsPrefix == <<104, 116, 116, 112, 115, 58, 47, 47>>

candidates == <<"url", "u", "redirect", "link", "r", "destination">>

\* hostname.includes(keyword) for some keyword of trackingHostnames
isTrackingHost(hostname) ==
    \E k \in 1..Len(trackingHostnames) : Includes(hostname, trackingHostnames[k])

\* url.searchParams.get(key): the decoded value of the first pair named key
SearchParamsGet(query, key) ==
    IF \E i \in 1..Len(query) : query[i].name = key
    THEN LET i == CHOOSE j \in 1..Len(query) :
                     /\ query[j].name = key
                     /\ \A k \in 1..(j - 1) : query[k].name # key
         IN  [found |-> TRUE, value |-> PercentDecode(query[i].value, TRUE)]
    ELSE [found |-> FALSE, value |-> <<>>]

\* the `for (const key of candidates)` loop from candidate i on
RECURSIVE unwrapFrom(_, _)
unwrapFrom(href, i) ==
    IF i > Len(candidates)
    THEN [kind |-> "ok", href |-> href, unwrapped |-> FALSE]
    ELSE LET got == SearchParamsGet(href.query, candidates[i])
         IN  IF ~got.found \/ got.value = <<>>
             THEN unwrapFrom(href, i + 1)
             ELSE LET decoded == decodeURIComponent(got.value)
                  IN  IF decoded.kind = "throw" THEN Throw
                      ELSE IF \/ StartsWith(decoded.text, HttpPrefix)
                              \/ StartsWith(decoded.text, HttpsPrefix)
                      THEN [kind |-> "ok", href |-> [text |-> decoded.text],
                            unwrapped |-> TRUE]
                      ELSE unwrapFrom(href, i + 1)

unwrapTrackingUrl(href) ==
    IF ~href.valid
    THEN [kind |-> "ok", href |-> href, unwrapped |-> FALSE]
    ELSE LET hostname       == ToLower(href.host)
             isTrackingPath == Includes(ToLower(href.path), TrackSegment)
         IN  IF ~isTrackingHost(hostname) /\ ~isTrackingPath
             THEN [kind |-> "ok", href |-> href, unwrapped |-> FALSE]
             ELSE unwrapFrom(href, 1)

------------------------------------------------------------------------------
(* sources/gmail.ts: resolveTrackingRedirect.  The function runs up to its  *)
(* `await fetch` in one piece (resolveSync) and from the settled fetch to   *)
(* its return in another (resolveSettled).  A cache is a function from the  *)
(* hrefs it holds to their values.                                          *)

EmptyCache == [h \in {} |-> NoValue]

CacheSet(cache, href, value) ==
    [h \in DOMAIN cache \cup {href} |-> IF h = href THEN value ELSE cache[h]]

\* url.origin of a parsed href (the links examined are https links)
Origin(href) == HttpsPrefix \o href.host

\* whether a URL reference starts with a scheme: ALPHA *( ALPHA / DIGIT / + - . ) ":"
HasScheme(s) ==
    \E i \in 2..Len(s) :
        /\ s[i] = 58
        /\ s[1] \in (65..90) \cup (97..122)
        /\ \A j \in 2..(i - 1) :
               s[j] \in (65..90) \cup (97..122) \cup (48..57) \cup {43, 45, 46}

\* new URL(location, origin).toString(), or a failure when the parser rejects
\* the reference (a scheme-relative reference without a host)
UrlWithBase(location, origin) ==
    IF HasScheme(location) THEN [ok |-> TRUE, text |-> location]
    ELSE IF StartsWith(location, <<47, 47>>)
    THEN IF Len(location) = 2 THEN [ok |-> FALSE, text |-> <<>>]
         ELSE [ok |-> TRUE, text |-> <<104, 116, 116, 112, 115, 58>> \o location]
    ELSE IF StartsWith(location, <<47>>) THEN [ok |-> TRUE, text |-> origin \o location]
    ELSE [ok |-> TRUE, text |-> origin \o <<47>> \o location]

\* lines 1436-1447: the cache look-up and the parse of href.  Answers
\* [done |-> TRUE, value, cache] when the call returns without a probe and
\* [done |-> FALSE] when it goes on to fetch(href, {redirect: 'manual'}).
resolveSync(href, cache) ==
    IF href \in DOMAIN cache
    THEN [done |-> TRUE, via |-> "cache", cache |-> cache,
          value |-> IF cache[href] = [text |-> <<>>] THEN href ELSE cache[href]]
    ELSE IF ~href.valid
    THEN [done |-> TRUE, via |-> "unparseable", value |-> href,
          cache |-> CacheSet(cache, href, href)]
    ELSE [done |-> FALSE]

\* 'http'
HttpWord == <<104, 116, 116, 112>>

\* lines 1455-1469: the value the call caches and returns once the probe has
\* settled.  outcome is [kind |-> "error" | "abort" | "response", hasLocation,
\* location]; every exception of the try block falls through to the original.
resolveSettled(href, outcome) ==
    IF outcome.kind = "response" /\ outcome.hasLocation /\ outcome.location # <<>>
    THEN IF StartsWith(outcome.location, HttpWord)
         THEN [text |-> outcome.location]
         ELSE LET u == UrlWithBase(outcome.location, Origin(href))
              IN  IF u.ok THEN [text |-> u.text] ELSE href
    ELSE href

\* what a probe can come back with: a network error, the 8 s abort, a
\* response without Location, and responses whose Location is
\* 'https://news.x.io/a', '/a', 'a', 'http-x' (a relative path), 'mailto:x',
\* '//' (rejected by the URL parser)
Locations ==
    {HttpsPrefix \o <<110, 101, 119, 115, 46, 120, 46, 105, 111, 47, 97>>,
     <<47, 97>>,
     <<97>>,
     <<104, 116, 116, 112, 45, 120>>,
     <<109, 97, 105, 108, 116, 111, 58, 120>>,
     <<47, 47>>}

ProbeOutcomes ==
    {[kind |-> "error", hasLocation |-> FALSE, location |-> <<>>],
     [kind |-> "abort", hasLocation |-> FALSE, location |-> <<>>],
     [kind |-> "response", hasLocation |-> FALSE, location |-> <<>>]}
        \cup {[kind |-> "response", hasLocation |-> TRUE, location |-> l] :
                l \in Locations}


------------------------------------------------------------------------------
(* sources/rss.ts.  A feed item after cheerio has read it is                *)
(* [title, link, guid, pubDate] with link and guid texts and pubDate        *)
(* [parses |-> whether new Date(text) is a valid date, at |-> its instant]; *)
(* the title is the item's ordinal in the feed.  A fetched document is      *)
(* [kind |-> "ok", item |-> its <item> elements, entry |-> its <entry>      *)
(* elements] or [kind |-> "fail"] when $fetch rejects.                      *)

parseDate(pubDate) == IF pubDate.parses THEN [ok |-> TRUE, at |-> pubDate.at]
                      ELSE [ok |-> FALSE, at |-> 0]

isWithinLookback(publishedAt, now, lookbackDays) ==
    LET windowStart == now - lookbackDays * 24 * 60 * 60 * 1000
    IN  publishedAt >= windowStart /\ publishedAt <= now

isSameDayInTimeZone(publishedAt, now, timeZone) ==
    getDateKeyInTimeZone(publishedAt, timeZone) = getDateKeyInTimeZone(now, timeZone)

\* a filter with exclusive bounds, against which the inclusive one is told apart
isWithinWindow_exclusive(publishedAt, start, end) ==
    publishedAt > start /\ publishedAt < end

isWithinWindow(publishedAt, start, end) ==
    publishedAt >= start /\ publishedAt <= end

\* item.link || item.guid || ''
ItemUrl(item) == IF item.link # <<>> THEN item.link ELSE item.guid

\* the filter callback of lines 105-116 with an item that has no date taken
\* as published now
rssItemKept_defaultNow(item, now, lookbackDays, window) ==
    LET publishedAt == IF parseDate(item.pubDate).ok THEN parseDate(item.pubDate)
                       ELSE [ok |-> TRUE, at |-> now]
    IN  IF window # NoValue
        THEN isWithinWindow(publishedAt.at, window.start, window.end)
        ELSE /\ isSameDayInTimeZone(publishedAt.at, now, CHICAGO_TIMEZONE)
             /\ isWithinLookback(publishedAt.at, now, lookbackDays)

\* the filter callback of lines 105-116
rssItemKept(item, now, lookbackDays, window) ==
    LET publishedAt == parseDate(item.pubDate)
    IN  IF ~publishedAt.ok THEN FALSE
        ELSE IF window # NoValue
        THEN isWithinWindow(publishedAt.at, window.start, window.end)
        ELSE /\ isSameDayInTimeZone(publishedAt.at, now, CHICAGO_TIMEZONE)
             /\ isWithinLookback(publishedAt.at, now, lookbackDays)

\* the Story of lines 117-125, after normalizeItem has set link to ItemUrl
rssStory(source, item) ==
    [id          |-> [kind |-> "text",
                      text |-> IF item.guid # <<>> THEN item.guid ELSE ItemUrl(item)],
     title       |-> item.title,
     url         |-> ItemUrl(item),
     source      |-> source.id,
     item        |-> item.title,
     index       |-> 0,
     publishedAt |-> item.pubDate]

RECURSIVE rssStories(_, _, _, _, _)
rssStories(source, items, now, lookbackDays, window) ==
    IF items = <<>> THEN <<>>
    ELSE LET item == Head(items)
             rest == rssStories(source, Tail(items), now, lookbackDays, window)
         IN  IF ItemUrl(item) # <<>> /\ rssItemKept(item, now, lookbackDays, window)
             THEN <<rssStory(source, item)>> \o rest
             ELSE rest

\* fetchRssItems without its catch: a failed request propagates
fetchRssItems_uncaught(source, fetched, now, lookbackDays, window) ==
    IF fetched.kind = "fail"
    THEN Throw
    ELSE LET items == IF Len(fetched.item) > 0 THEN fetched.item ELSE fetched.entry
         IN  [kind |-> "ok",
              stories |-> rssStories(source, items, now, lookbackDays, window)]

\* fetchRssItems: the try block, and the catch that answers []
fetchRssItems(source, fetched, now, lookbackDays, window) ==
    IF fetched.kind = "fail"
    THEN [kind |-> "ok", stories |-> <<>>]
    ELSE LET items == IF Len(fetched.item) > 0 THEN fetched.item ELSE fetched.entry
         IN  [kind |-> "ok",
              stories |-> rssStories(source, items, now, lookbackDays, window)]

------------------------------------------------------------------------------
(* sources/gmail.ts: fetchGmailItems after its fetches.  A message is       *)
(* [id, hasHtml, internalDate |-> [present, at], archive, jina, page, body, *)
(* ai]: whether extractHtml finds a body; what findArchiveLink does         *)
(* ("none" | "link" | "throw", unwrapTrackingUrl raising); what the Jina    *)
(* reader, the direct fetch of the archive page and htmlToPlainText of the  *)
(* body yield ("ok" | "empty" | "throw"); and what                          *)
(* extractNewsletterLinksWithAi does ([kind |-> "throw"] or                 *)
(* [kind |-> "links", links |-> the link URLs]).                            *)

\* line 1874: the message lies outside the window
gmailOutsideWindow(receivedAt, windowStart, windowEnd) ==
    receivedAt < windowStart \/ receivedAt > windowEnd

\* lines 1885-1920: where newsletterContent comes from; "" when it is empty
newsletterContent(m) ==
    IF m.archive = "throw" THEN "throw"
    ELSE LET fromArchive ==
                 IF m.archive = "link"
                 THEN IF m.jina = "ok" THEN "jina"
                      ELSE IF m.page = "ok" THEN "archive" ELSE ""
                 ELSE ""
         IN  IF fromArchive # "" THEN fromArchive
             ELSE IF m.body = "throw" THEN "throw"
             ELSE IF m.body = "ok" THEN "email" ELSE ""

\* lines 1940-1952
gmailStories(source, m, receivedAt) ==
    [k \in 1..Len(m.ai.links) |->
        [id          |-> [kind |-> "message", message |-> m.id, index |-> k - 1],
         title       |-> m.id,
         url         |-> m.ai.links[k],
         source      |-> source.id,
         item        |-> m.id,
         index       |-> k - 1,
         publishedAt |-> [parses |-> TRUE, at |-> receivedAt]]]

\* the loop of lines 1864-1957 without the try/catch of lines 1927-1959
gmailMessage_uncaught(source, m, now, window, range) ==
    LET receivedAt  == IF m.internalDate.present THEN m.internalDate.at ELSE now
        windowStart == IF window # NoValue THEN window.start ELSE range.startUtc
        windowEnd   == IF window # NoValue THEN window.end ELSE range.endUtc
        content     == newsletterContent(m)
    IN  IF ~m.hasHtml THEN [kind |-> "ok", stories |-> <<>>]
        ELSE IF gmailOutsideWindow(receivedAt, windowStart, windowEnd)
        THEN [kind |-> "ok", stories |-> <<>>]
        ELSE IF /\ window = NoValue
                /\ getDateKeyInTimeZone(receivedAt, CHICAGO_TIMEZONE) # range.dateKey
        THEN [kind |-> "ok", stories |-> <<>>]
        ELSE IF content = "throw" THEN Throw
        ELSE IF content = "" THEN [kind |-> "ok", stories |-> <<>>]
        ELSE IF m.ai.kind = "throw" THEN Throw
        ELSE [kind |-> "ok", stories |-> gmailStories(source, m, receivedAt)]

\* one turn of the loop of lines 1864-1957: the stories the message adds, or
\* Throw when an exception leaves the loop
gmailMessage(source, m, now, window, range) ==
    LET receivedAt  == IF m.internalDate.present THEN m.internalDate.at ELSE now
        windowStart == IF window # NoValue THEN window.start ELSE range.startUtc
        windowEnd   == IF window # NoValue THEN window.end ELSE range.endUtc
        content     == newsletterContent(m)
    IN  IF ~m.hasHtml THEN [kind |-> "ok", stories |-> <<>>]
        ELSE IF gmailOutsideWindow(receivedAt, windowStart, windowEnd)
        THEN [kind |-> "ok", stories |-> <<>>]
        ELSE IF /\ window = NoValue
                /\ getDateKeyInTimeZone(receivedAt, CHICAGO_TIMEZONE) # range.dateKey
        THEN [kind |-> "ok", stories |-> <<>>]
        ELSE IF content = "throw" THEN Throw
        ELSE IF content = "" THEN [kind |-> "ok", stories |-> <<>>]
        ELSE IF m.ai.kind = "throw" THEN [kind |-> "ok", stories |-> <<>>]
        ELSE [kind |-> "ok", stories |-> gmailStories(source, m, receivedAt)]

RECURSIVE gmailLoop(_, _, _, _, _)
gmailLoop(source, messages, now, window, range) ==
    IF messages = <<>> THEN [kind |-> "ok", stories |-> <<>>]
    ELSE LET first == gmailMessage(source, Head(messages), now, window, range)
             rest  == gmailLoop(source, Tail(messages), now, window, range)
         IN  IF first.kind = "throw" \/ rest.kind = "throw" THEN Throw
             ELSE [kind |-> "ok", stories |-> first.stories \o rest.stories]

\* lines 1864-1928: what one turn of the loop hands to
\* extractNewsletterLinksWithAi as content: "jina", "archive" or "email";
\* "none" when the turn ends before line 1885, "" when the content is empty
\* (line 1922) and "throw" when findArchiveLink or htmlToPlainText raises
extractorInput(m, now, window, range) ==
    LET receivedAt  == IF m.internalDate.present THEN m.internalDate.at ELSE now
        windowStart == IF window # NoValue THEN window.start ELSE range.startUtc
        windowEnd   == IF window # NoValue THEN window.end ELSE range.endUtc
    IN  IF ~m.hasHtml THEN "none"
        ELSE IF gmailOutsideWindow(receivedAt, windowStart, windowEnd) THEN "none"
        ELSE IF /\ window = NoValue
                /\ getDateKeyInTimeZone(receivedAt, CHICAGO_TIMEZONE) # range.dateKey
        THEN "none"
        ELSE newsletterContent(m)

\* the contents of the turns of the loop, "unreached" for the messages after
\* the one at which an exception leaves the loop
RECURSIVE gmailContents(_, _, _, _, _)
gmailContents(source, messages, now, window, range) ==
    IF messages = <<>> THEN <<>>
    ELSE IF gmailMessage(source, Head(messages), now, window, range).kind = "throw"
    THEN <<extractorInput(Head(messages), now, window, range)>>
             \o [i \in 1..(Len(messages) - 1) |-> "unreached"]
    ELSE <<extractorInput(Head(messages), now, window, range)>>
             \o gmailContents(source, Tail(messages), now, window, range)


------------------------------------------------------------------------------
(* The URL parser on texts: `new URL(text)` and the fields and the           *)
(* serialisation of its result, for the references met here (no credentials, *)
(* no port, no dot segments).                                                *)

\* the least member of a set of positions, or otherwise when it is empty
LeastOr(positions, otherwise) ==
    IF positions = {} THEN otherwise
    ELSE CHOOSE i \in positions : \A j \in positions : i <= j

\* the first position from `from` on that holds one of the characters, else
\* Len(s) + 1
FirstOf(s, chars, from) ==
    LeastOr({i \in from..Len(s) : s[i] \in chars}, Len(s) + 1)

\* the first position from `from` on that holds none of the characters
FirstNotOf(s, chars, from) ==
    LeastOr({i \in from..Len(s) : s[i] \notin chars}, Len(s) + 1)

\* 'http', 'https' as lower-case scheme names
SpecialSchemes == {HttpWord, HttpWord \o <<115>>}

\* the rest of a special URL once its host is read: path, query, fragment
specialTail(s, scheme, hostname, pathAt, queryAt, hashAt) ==
    [ok |-> TRUE, scheme |-> scheme, hostname |-> hostname,
     pathname |-> IF pathAt >= queryAt THEN <<47>>
                  ELSE SubSeq(s, pathAt, queryAt - 1),
     search   |-> IF hashAt - queryAt <= 1 THEN <<>>
                  ELSE SubSeq(s, queryAt, hashAt - 1),
     hash     |-> IF Len(s) - hashAt < 1 THEN <<>> ELSE SubSeq(s, hashAt, Len(s))]

\* a special URL from the position after its slashes
specialFrom(s, scheme, hostAt, hashAt) ==
    IF FirstOf(s, {47, 92, 63, 35}, hostAt) = hostAt THEN [ok |-> FALSE]
    ELSE specialTail(s, scheme,
                     ToLower(SubSeq(s, hostAt, FirstOf(s, {47, 92, 63, 35}, hostAt) - 1)),
                     FirstOf(s, {47, 92, 63, 35}, hostAt),
                     LeastOr({i \in hostAt..(hashAt - 1) : s[i] = 63}, hashAt),
                     hashAt)

\* a URL with an opaque path (mailto:, tel:)
opaqueFrom(s, scheme, pathAt, queryAt, hashAt) ==
    [ok |-> TRUE, scheme |-> scheme, hostname |-> <<>>,
     pathname |-> SubSeq(s, pathAt, queryAt - 1),
     search   |-> IF hashAt - queryAt <= 1 THEN <<>>
                  ELSE SubSeq(s, queryAt, hashAt - 1),
     hash     |-> IF Len(s) - hashAt < 1 THEN <<>> ELSE SubSeq(s, hashAt, Len(s))]

schemeFrom(s, colon) ==
    IF ToLower(SubSeq(s, 1, colon - 1)) \in SpecialSchemes
    THEN specialFrom(s, ToLower(SubSeq(s, 1, colon - 1)),
                     FirstNotOf(s, {47, 92}, colon + 1), FirstOf(s, {35}, colon + 1))
    ELSE opaqueFrom(s, ToLower(SubSeq(s, 1, colon - 1)), colon + 1,
                    LeastOr({i \in (colon + 1)..(FirstOf(s, {35}, colon + 1) - 1) : s[i] = 63},
                            FirstOf(s, {35}, colon + 1)),
                    FirstOf(s, {35}, colon + 1))

\* new URL(s): [ok |-> FALSE] when it throws, else [ok, scheme, hostname,
\* pathname, search, hash]
ParseUrl(s) ==
    IF ~HasScheme(s) THEN [ok |-> FALSE]
    ELSE schemeFrom(s, FirstOf(s, {58}, 1))

\* url.toString() of a parsed URL
UrlText(u) ==
    IF u.scheme \in SpecialSchemes
    THEN u.scheme \o <<58, 47, 47>> \o u.hostname \o u.pathname \o u.search \o u.hash
    ELSE u.scheme \o <<58>> \o u.pathname \o u.search \o u.hash

\* the characters of a query parameter name
NameChars(name) ==
    CASE name = "url"         -> <<117, 114, 108>>
      [] name = "u"           -> <<117>>
      [] name = "destination" -> <<100, 101, 115, 116, 105, 110, 97, 116, 105, 111, 110>>
      [] OTHER                -> <<120>>

\* url.search of a parsed href: ?name=value&name=value
RECURSIVE QueryText(_, _)
QueryText(query, i) ==
    IF i > Len(query) THEN <<>>
    ELSE (IF i = 1 THEN <<63>> ELSE <<38>>)
             \o NameChars(query[i].name) \o <<61>> \o query[i].value
             \o QueryText(query, i + 1)

\* the scheme and the fragment of a parsed href; the hrefs written without
\* them are https links without a fragment
SchemeOf(href) == IF "scheme" \in DOMAIN href THEN href.scheme ELSE HttpWord \o <<115>>
HashOf(href) == IF "hash" \in DOMAIN href THEN href.hash ELSE <<>>

\* the text an unparseable href stands for
RawOf(href) == IF "raw" \in DOMAIN href THEN href.raw ELSE <<110, 111, 32, 117, 114, 108>>

\* the string a link value is: a computed text, an unparseable href, a parsed
\* href
HrefText(href) ==
    IF "text" \in DOMAIN href THEN href.text
    ELSE IF ~href.valid THEN RawOf(href)
    ELSE IF SchemeOf(href) \in SpecialSchemes
    THEN SchemeOf(href) \o <<58, 47, 47>> \o href.host \o href.path
             \o QueryText(href.query, 1) \o HashOf(href)
    ELSE SchemeOf(href) \o <<58>> \o href.path \o QueryText(href.query, 1) \o HashOf(href)

------------------------------------------------------------------------------
(* sources/gmail.ts: the reading of a model response.  A response text is a  *)
(* sequence of tokens: [t |-> "prose"] (words outside JSON), [t |-> "fence"] *)
(* (``` or ```json), [t |-> "ws"] (white space), [t |-> "["], [t |-> "]"],   *)
(* [t |-> ","] and [t |-> "item", item |-> a JSON value].  A JSON value is   *)
(* [kind |-> "scalar"] or [kind |-> "object", link, url, title], a field     *)
(* being NoValue when it is absent or not a string.  A link string is        *)
(* [kind |-> "empty"], [kind |-> "space"] (white space only) or              *)
(* [kind |-> "url", scheme, href, pad, trail]: the text                      *)
(* <scheme>://<href.host><href.path>?<href.query>#<href.hash><trail>, with   *)
(* white space around it when pad.                                           *)

Tok(t) == [t |-> t]
ItemTok(item) == [t |-> "item", item |-> item]

\* String.prototype.trim on a token sequence, from the left and from the right
RECURSIVE TrimLeft(_)
TrimLeft(text) ==
    IF text # <<>> /\ Head(text).t = "ws" THEN TrimLeft(Tail(text)) ELSE text

RECURSIVE TrimRight(_)
TrimRight(text) ==
    IF text # <<>> /\ text[Len(text)].t = "ws"
    THEN TrimRight(SubSeq(text, 1, Len(text) - 1)) ELSE text

Trim(text) == TrimRight(TrimLeft(text))

\* lines 1477-1479
stripCodeFences(text) == Trim(SelectSeq(text, LAMBDA tok : tok.t # "fence"))

\* the positions of a token kind
PositionsOf(text, t) == {i \in 1..Len(text) : text[i].t = t}

\* trimmed.match(/\[[\s\S]*\]/): from the first '[' to the last ']' after it
bracketMatch(trimmed, opens, closes) ==
    IF opens = {} THEN <<>>
    ELSE IF \A j \in closes : \A i \in opens : j < i THEN <<>>
    ELSE SubSeq(trimmed,
                CHOOSE i \in opens : \A k \in opens : i <= k,
                CHOOSE j \in closes : \A k \in closes : k <= j)

\* lines 1481-1488 on the trimmed text
extractJsonArrayOf(trimmed) ==
    IF trimmed # <<>> /\ Head(trimmed).t = "[" /\ trimmed[Len(trimmed)].t = "]"
    THEN trimmed
    ELSE bracketMatch(trimmed, PositionsOf(trimmed, "["), PositionsOf(trimmed, "]"))

extractJsonArray(text) == extractJsonArrayOf(Trim(text))

\* JSON.parse of a text that starts with '[': its elements, or a SyntaxError.
\* White space between tokens is insignificant; the elements alternate with
\* commas between one '[' and one ']'.
jsonElements(body) ==
    IF body = <<>> THEN [ok |-> TRUE, items |-> <<>>]
    ELSE IF /\ Len(body) % 2 = 1
            /\ \A i \in 1..Len(body) :
                  body[i].t = (IF i % 2 = 1 THEN "item" ELSE ",")
    THEN [ok |-> TRUE,
          items |-> [k \in 1..((Len(body) + 1) \div 2) |-> body[2 * k - 1].item]]
    ELSE [ok |-> FALSE, items |-> <<>>]

jsonParseOf(dense) ==
    IF Len(dense) >= 2 /\ dense[1].t = "[" /\ dense[Len(dense)].t = "]"
    THEN jsonElements(SubSeq(dense, 2, Len(dense) - 1))
    ELSE [ok |-> FALSE, items |-> <<>>]

jsonParse(json) == jsonParseOf(SelectSeq(json, LAMBDA tok : tok.t # "ws"))

\* lines 1512-1516: record.link when it is a string, else record.url, else ''
itemLink(item) ==
    IF item.link # NoValue THEN item.link
    ELSE IF item.url # NoValue THEN item.url
    ELSE [kind |-> "empty"]

\* link.trim()
trimLink(link) ==
    IF link.kind = "space" THEN [kind |-> "empty"]
    ELSE IF link.kind = "url" THEN [link EXCEPT !.pad = FALSE]
    ELSE link

\* lines 1507-1525: the candidates of the parsed elements
RECURSIVE linkCandidates(_)
linkCandidates(items) ==
    IF items = <<>> THEN <<>>
    ELSE IF Head(items).kind # "object" THEN linkCandidates(Tail(items))
    ELSE IF itemLink(Head(items)).kind = "empty" THEN linkCandidates(Tail(items))
    ELSE <<[link |-> trimLink(itemLink(Head(items))), title |-> Head(items).title]>>
             \o linkCandidates(Tail(items))

\* lines 1493-1505 on the extracted text
parseJsonLinks(json) ==
    IF json = <<>> THEN <<>>
    ELSE IF ~jsonParse(json).ok THEN <<>>
    ELSE linkCandidates(jsonParse(json).items)

\* lines 1490-1527
parseNewsletterLinks(text) == parseJsonLinks(extractJsonArray(stripCodeFences(text)))

\* response.text.trim() is not empty
isNonBlank(text) == Trim(text) # <<>>

------------------------------------------------------------------------------
(* sources/gmail.ts: extractNewsletterLinksWithAi after the responses.      *)

\* line 1296
MAX_NEWSLETTER_LINKS == 10

NoLink == [ok |-> FALSE]

\* lines 1529-1540: '' (NoLink) or the parsed URL of the text without the
\* white space around it and without its trailing ) , . ]
normalizeUrl(input) ==
    IF input.kind # "url" THEN NoLink
    ELSE IF input.scheme \notin {"http", "https"} THEN NoLink
    ELSE IF ~input.href.valid THEN NoLink
    ELSE [ok |-> TRUE, href |-> [input.href EXCEPT !.host = ToLower(@)]]

\* lines 1542-1551 on the text of a link
getUrlKey(text) ==
    IF ParseUrl(text).ok THEN UrlText([ParseUrl(text) EXCEPT !.hash = <<>>])
    ELSE text

\* lines 1711-1715: the candidates normalizeUrl accepts, each with its link
\* unwrapped; the ones it rejects become null and leave at line 1744
RECURSIVE normalizeCandidates(_)
normalizeCandidates(raw) ==
    IF raw = <<>> THEN <<>>
    ELSE IF ~normalizeUrl(Head(raw).link).ok THEN normalizeCandidates(Tail(raw))
    ELSE <<[title     |-> Head(raw).title,
            unwrap    |-> unwrapTrackingUrl(normalizeUrl(Head(raw).link).href)]>>
             \o normalizeCandidates(Tail(raw))

\* lines 1743-1753: the link is not empty and `new URL` accepts it
isParseableLink(link) ==
    IF "text" \in DOMAIN link THEN ParseUrl(link.text).ok ELSE link.valid

\* lines 1755-1761 from candidate i on: keys[i] is the key of candidate i and
\* seen the keys the map holds; the first candidate of each key stays
RECURSIVE dedupeFrom(_, _, _, _)
dedupeFrom(filtered, keys, i, seen) ==
    IF i > Len(filtered) THEN <<>>
    ELSE IF keys[i] \in seen THEN dedupeFrom(filtered, keys, i + 1, seen)
    ELSE <<filtered[i]>> \o dedupeFrom(filtered, keys, i + 1, seen \cup {keys[i]})

dedupeByKey(filtered) ==
    CHOOSE deduped \in
        {dedupeFrom(filtered, keys, 1, {}) :
            keys \in {[i \in 1..Len(filtered) |-> getUrlKey(HrefText(filtered[i].link))]}} :
        TRUE

\* Array.prototype.slice(0, n)
sliceTo(list, n) == SubSeq(list, 1, IF Len(list) < n THEN Len(list) ELSE n)

\* a result without the cap of line 1763
capResults_uncapped(deduped) == deduped

\* line 1763
capResults(deduped) == sliceTo(deduped, MAX_NEWSLETTER_LINKS)

\* lines 1737-1763: the result from the settled candidates
newsletterResults(links) ==
    CHOOSE results \in
        {capResults(dedupeByKey(filtered)) :
            filtered \in {SelectSeq([i \in 1..Len(links) |->
                                        [title |-> links[i].title, link |-> links[i].href]],
                                    LAMBDA c : isParseableLink(c.link))}} :
        TRUE

\* line 1680: whether the first response is followed by a second call
needsRetry_always(text) == TRUE

needsRetry(text) == Len(parseNewsletterLinks(text)) = 0 /\ isNonBlank(text)

------------------------------------------------------------------------------
(* sources/gmail.ts: extractLinks after the tracking resolution.  A link is  *)
(* [href, text, ...] with text the display text of the anchor; the rules are *)
(* [resolveTrackingLinks, excludeText, includeDomains, excludeDomains,       *)
(* excludePathKeywords, includePathKeywords, minArticleScore,                *)
(* minTextLength], a rule being NoValue when it is not set, [list |-> its   *)
(* terms] or [n |-> its number] when it is.                                 *)

\* lines 121-139
defaultExcludeText ==
    <<<<117, 110, 115, 117, 98, 115, 99, 114, 105, 98, 101>>,   \* unsubscribe
      <<115, 117, 98, 115, 99, 114, 105, 98, 101>>,   \* subscribe
      <<112, 114, 105, 118, 97, 99, 121>>,   \* privacy
      <<116, 101, 114, 109, 115>>,   \* terms
      <<116, 101, 114, 109, 115, 32, 97, 110, 100, 32, 99, 111, 110, 100, 105, 116, 105, 111, 110, 115>>,   \* terms and conditions
      <<99, 111, 110, 116, 97, 99, 116>>,   \* contact
      <<109, 97, 110, 97, 103, 101, 32, 112, 114, 101, 102, 101, 114, 101, 110, 99, 101, 115>>,   \* manage preferences
      <<112, 114, 101, 102, 101, 114, 101, 110, 99, 101, 115>>,   \* preferences
      <<102, 111, 114, 119, 97, 114, 100>>,   \* forward
      <<115, 104, 97, 114, 101>>,   \* share
      <<116, 119, 101, 101, 116>>,   \* tweet
      <<102, 97, 99, 101, 98, 111, 111, 107>>,   \* facebook
      <<116, 119, 105, 116, 116, 101, 114>>,   \* twitter
      <<108, 105, 110, 107, 101, 100, 105, 110>>,   \* linkedin
      <<105, 110, 115, 116, 97, 103, 114, 97, 109>>,   \* instagram
      <<121, 111, 117, 116, 117, 98, 101>>,   \* youtube
      <<114, 115, 115>>   \* rss
    >>

\* lines 141-149
defaultExcludePathKeywords ==
    <<<<47, 119, 101, 98, 105, 110, 97, 114, 47>>,   \* /webinar/
      <<47, 99, 97, 116, 101, 103, 111, 114, 121, 47>>,   \* /category/
      <<47, 117, 110, 115, 117, 98, 115, 99, 114, 105, 98, 101>>,   \* /unsubscribe
      <<47, 115, 117, 98, 115, 99, 114, 105, 98, 101>>,   \* /subscribe
      <<47, 112, 114, 105, 118, 97, 99, 121>>,   \* /privacy
      <<47, 116, 101, 114, 109, 115>>,   \* /terms
      <<47, 99, 111, 110, 116, 97, 99, 116>>   \* /contact
    >>

\* rules?.field || []
ListOr(value) == IF value = NoValue THEN <<>> ELSE value.list

\* lines 105-111
matchesAny(text, patterns) ==
    \E k \in 1..Len(patterns) : Includes(ToLower(text), ToLower(patterns[k]))

\* lines 417-429: the link has an href and its text holds no excluded term
passesTextFilter(link, rules) ==
    /\ HrefText(link.href) # <<>>
    /\ ~matchesAny(link.text, defaultExcludeText \o ListOr(rules.excludeText))

\* lines 432-437 from link i on: entries are the values of uniqueByHref in
\* insertion order and keys[k] the href text of filtered[k]; a later link
\* takes the place of the entry of its href when its text is longer
RECURSIVE uniqueFrom(_, _, _, _)
uniqueFrom(filtered, keys, i, entries) ==
    IF i > Len(filtered) THEN [k \in 1..Len(entries) |-> filtered[entries[k]]]
    ELSE IF \A k \in 1..Len(entries) : keys[entries[k]] # keys[i]
    THEN uniqueFrom(filtered, keys, i + 1, Append(entries, i))
    ELSE uniqueFrom(filtered, keys, i + 1,
             [k \in 1..Len(entries) |->
                 IF /\ keys[entries[k]] = keys[i]
                    /\ filtered[i].text # <<>>
                    /\ Len(filtered[i].text) > Len(filtered[entries[k]].text)
                 THEN i ELSE entries[k]])

\* lines 431-438 with a map that keeps the first link of each href whatever
\* the texts
uniqueByHref_first(filtered) ==
    CHOOSE deduped \in
        {[k \in 1..Len(firsts) |-> filtered[firsts[k]]] :
            firsts \in {SelectSeq([i \in 1..Len(filtered) |-> i],
                                  LAMBDA i : \A j \in 1..(i - 1) :
                                      HrefText(filtered[j].href) # HrefText(filtered[i].href))}} :
        TRUE

\* lines 431-438
uniqueByHref(filtered) ==
    CHOOSE deduped \in
        {uniqueFrom(filtered, keys, 1, <<>>) :
            keys \in {[i \in 1..Len(filtered) |-> HrefText(filtered[i].href)]}} :
        TRUE

\* lines 440-461 on the parsed href
domainAllowed(url, rules) ==
    IF rules.includeDomains = NoValue /\ rules.excludeDomains = NoValue THEN TRUE
    ELSE IF ~url.ok THEN FALSE
    ELSE /\ Len(ListOr(rules.includeDomains)) > 0 =>
               \E k \in 1..Len(ListOr(rules.includeDomains)) :
                   Includes(url.hostname, ListOr(rules.includeDomains)[k])
         /\ Len(ListOr(rules.excludeDomains)) > 0 =>
               ~\E k \in 1..Len(ListOr(rules.excludeDomains)) :
                   Includes(url.hostname, ListOr(rules.excludeDomains)[k])

\* lines 463-475 with a catch that lets the link through
pathAllowed_lenient(url, rules) ==
    IF ~url.ok THEN TRUE
    ELSE ~matchesAny(url.pathname,
                     defaultExcludePathKeywords \o ListOr(rules.excludePathKeywords))

\* lines 463-475 with the list of the rules in place of the defaults
pathAllowed_override(url, rules) ==
    IF ~url.ok THEN FALSE
    ELSE ~matchesAny(url.pathname,
                     IF rules.excludePathKeywords = NoValue THEN defaultExcludePathKeywords
                     ELSE rules.excludePathKeywords.list)

\* lines 463-475 on the parsed href
pathAllowed(url, rules) ==
    IF ~url.ok THEN FALSE
    ELSE ~matchesAny(url.pathname,
                     defaultExcludePathKeywords \o ListOr(rules.excludePathKeywords))

\* pathname.split('/').filter(Boolean): the segments as [from, to] positions
PathSegments(path) ==
    {seg \in [from : 1..Len(path), to : 1..Len(path)] :
        /\ seg.from <= seg.to
        /\ \A k \in seg.from..seg.to : path[k] # 47
        /\ (seg.from = 1 \/ path[seg.from - 1] = 47)
        /\ (seg.to = Len(path) \/ path[seg.to + 1] = 47)}

\* lines 325-327
getUrlPathDepth(pathname) == Cardinality(PathSegments(pathname))

\* lines 329-332: the last segment, '' when there is none
lastOf(pathname, segments) ==
    IF segments = {} THEN <<>>
    ELSE SubSeq(pathname,
                (CHOOSE seg \in segments : \A other \in segments : other.to <= seg.to).from,
                (CHOOSE seg \in segments : \A other \in segments : other.to <= seg.to).to)

getLastPathSegment(pathname) == lastOf(pathname, PathSegments(pathname))

\* rules?.field ?? fallback
NumberOr(value, fallback) == IF value = NoValue THEN fallback ELSE value.n

\* 1 when the condition holds, else 0
Point(condition) == IF condition THEN 1 ELSE 0

\* lines 345-368 without the point of the slug
scoreOfPath_noSlug(path, lastSegment, text, rules) ==
    Point(getUrlPathDepth(path) >= 2)
        + Point(\E k \in 1..Len(ListOr(rules.includePathKeywords)) :
                    Includes(path, ToLower(ListOr(rules.includePathKeywords)[k])))
        + Point(Len(text) >= NumberOr(rules.minTextLength, 8))

\* lines 345-368 on the lower-cased path of the href
scoreOfPath(path, lastSegment, text, rules) ==
    Point(getUrlPathDepth(path) >= 2)
        + Point(Len(lastSegment) >= 10 /\ \E k \in 1..Len(lastSegment) : lastSegment[k] \in {45, 95})
        + Point(\E k \in 1..Len(ListOr(rules.includePathKeywords)) :
                    Includes(path, ToLower(ListOr(rules.includePathKeywords)[k])))
        + Point(Len(text) >= NumberOr(rules.minTextLength, 8))

\* lines 334-369
scoreArticleLink(link, rules) ==
    CHOOSE score \in
        {IF ~url.ok THEN -1
         ELSE scoreOfPath(ToLower(url.pathname), getLastPathSegment(ToLower(url.pathname)),
                          link.text, rules) :
            url \in {ParseUrl(HrefText(link.href))}} :
        TRUE

\* lines 477-483: a link with the score that keeps it
scoredLink(link, score) ==
    [href |-> link.href, text |-> link.text, unwrapped |-> link.unwrapped,
     rawHref |-> link.rawHref, score |-> score]

\* lines 440-483: the deduplicated links that pass the domain filter, the path
\* filter and the score threshold
keptOf(deduped, rules) ==
    SelectSeq([i \in 1..Len(deduped) |->
                  scoredLink(deduped[i], scoreArticleLink(deduped[i], rules))],
              LAMBDA link :
                  /\ domainAllowed(ParseUrl(HrefText(link.href)), rules)
                  /\ pathAllowed(ParseUrl(HrefText(link.href)), rules)
                  /\ link.score >= NumberOr(rules.minArticleScore, 2))

\* lines 417-511: what extractLinks returns for the resolved links
keptLinks(resolvedLinks, rules) ==
    CHOOSE kept \in
        UNION {{keptOf(deduped, rules) : deduped \in {uniqueByHref(filtered)}} :
                  filtered \in {SelectSeq(resolvedLinks,
                                          LAMBDA link : passesTextFilter(link, rules))}} :
        TRUE

------------------------------------------------------------------------------
(* sources/index.ts: the dispatcher.  A source is [id, type, url, label,     *)
(* enabled, lookbackDays] with enabled "unset" | "true" | "false", label ""  *)
(* when absent and lookbackDays NoValue when absent.                         *)

\* sources/config.example.ts:3
defaultLookbackDays == 7

isEnabled(source) == source.enabled # "false"

getLookbackDays(source, fallback) ==
    IF source.lookbackDays = NoValue THEN fallback ELSE source.lookbackDays.days

\* the Story a 'url' source stands for (lines 81-90)
urlStory(source) ==
    [id          |-> [kind |-> "source", source |-> source.id],
     title       |-> 0,
     url         |-> source.url,
     source      |-> source.id,
     item        |-> 0,
     index       |-> 0,
     publishedAt |-> [parses |-> FALSE, at |-> 0]]

\* an async callback of the map: where it stands, what it has fetched so far
\* and, once fulfilled, the list it returned
Branch(pc, value) ==
    [pc |-> pc, fetched |-> "", refs |-> <<>>, got |-> <<>>, arrived |-> {},
     reordered |-> FALSE, value |-> value]

\* the callback of lines 66-95 up to its first await on the network
startBranch(source, options) ==
    CASE source.type = "rss" -> Branch("fetching", <<>>)
      [] source.type = "gmail" ->
             IF options.env = NoValue THEN Branch("fulfilled", <<>>)
             ELSE IF source.label = "" THEN Branch("fulfilled", <<>>)
             ELSE IF ~options.env.credentials THEN Branch("rejected", <<>>)
             ELSE Branch("token", <<>>)
      [] source.type = "url" -> Branch("fulfilled", <<urlStory(source)>>)
      [] OTHER -> Branch("fulfilled", <<>>)

\* Promise.all: a slot per input promise, filled when that promise fulfils
Pending == [filled |-> FALSE]

\* a Promise.all that fills its slots in the order the promises fulfil
promiseAllStore_arrival(values, index, value) ==
    LET free == CHOOSE i \in 1..Len(values) :
                    ~values[i].filled /\ \A k \in 1..(i - 1) : values[k].filled
    IN  [values EXCEPT ![free] = [filled |-> TRUE, value |-> value]]

promiseAllStore(values, index, value) ==
    [values EXCEPT ![index] = [filled |-> TRUE, value |-> value]]

AllFilled(values) == \A i \in 1..Len(values) : values[i].filled

AnyRejected(branches) == \E j \in 1..Len(branches) : branches[j].pc = "rejected"

\* the slots after the callbacks 1..j that fulfilled without awaiting the network
RECURSIVE storeStarted(_, _)
storeStarted(branches, j) ==
    IF j = 0 THEN [i \in 1..Len(branches) |-> Pending]
    ELSE IF branches[j].pc = "fulfilled"
    THEN promiseAllStore(storeStarted(branches, j - 1), j, branches[j].value)
    ELSE storeStarted(branches, j - 1)

\* Array.prototype.flat over the filled slots
RECURSIVE flat(_)
flat(groups) ==
    IF groups = <<>> THEN <<>> ELSE Head(groups).value \o flat(Tail(groups))

------------------------------------------------------------------------------
(* Each specification below runs one component; the variables of the others *)
(* rest at these values.                                                    *)

IdleW ==
    /\ wNow = 0
    /\ wMode = "calendar"
    /\ wHours = 24
    /\ wZone = "UTC"
    /\ wHc = "h23"
    /\ wResult = NoValue
    /\ wRange = NoValue

IdleU ==
    /\ uTarget = NoValue
    /\ uHref = NoValue
    /\ uResult = NoValue

IdleR ==
    /\ rCache = EmptyCache
    /\ rPc = "idle"
    /\ rHref = NoValue
    /\ rLast = NoValue
    /\ rProbes = 0
    /\ rCalls = 0

IdleE ==
    /\ eAnchors = <<>>
    /\ eRules = [resolveTrackingLinks |-> TRUE]
    /\ ePc = "idle"
    /\ eLinks = <<>>
    /\ eCache = EmptyCache
    /\ eProbes = <<>>
    /\ eTexts = <<>>
    /\ eSettled = <<>>
    /\ eResult = NoValue

IdleF ==
    /\ fNow = 0
    /\ fWindow = NoValue
    /\ fCall = "none"
    /\ fInput = NoValue
    /\ fOutput = NoValue
    /\ fLookback = NoValue
    /\ fContents = <<>>

IdleD ==
    /\ dSources = <<>>
    /\ dOptions = NoValue
    /\ dPc = "idle"
    /\ dEnabled = <<>>
    /\ dBranch = <<>>
    /\ dGroups = <<>>
    /\ dResult = NoValue
    /\ dOrder = <<>>

IdleA ==
    /\ aRules = [resolveTrackingLinks |-> TRUE]
    /\ aPc = "idle"
    /\ aCalls = 0
    /\ aTexts = <<>>
    /\ aLinks = <<>>
    /\ aCache = EmptyCache
    /\ aProbes = <<>>
    /\ aResult = NoValue

IdleJ ==
    /\ jOptions = NoValue
    /\ jPc = "idle"
    /\ jAttempt = 0
    /\ jDelay = 0
    /\ jCalls = 0
    /\ jErrors = <<>>
    /\ jSleeps = <<>>
    /\ jResult = NoValue

IdleK ==
    /\ kEnv = NoValue
    /\ kHc = "h23"
    /\ kEvent = NoValue
    /\ kResponse = NoValue
    /\ kCreated = <<>>

IdleH ==
    /\ hEnv = NoValue
    /\ hPc = "idle"
    /\ hStories = NoValue
    /\ hIndex = 0
    /\ hLines = 0
    /\ hAttempts = 0
    /\ hLog = <<>>
    /\ hKv = {}

othersW == <<varsU, varsR, varsE, varsF, varsD, varsA, varsJ, varsK, varsH>>
othersU == <<varsW, varsR, varsE, varsF, varsD, varsA, varsJ, varsK, varsH>>
othersR == <<varsW, varsU, varsE, varsF, varsD, varsA, varsJ, varsK, varsH>>
othersE == <<varsW, varsU, varsR, varsF, varsD, varsA, varsJ, varsK, varsH>>
othersF == <<varsW, varsU, varsR, varsE, varsD, varsA, varsJ, varsK, varsH>>
othersD == <<varsW, varsU, varsR, varsE, varsF, varsA, varsJ, varsK, varsH>>
othersA == <<varsW, varsU, varsR, varsE, varsF, varsD, varsJ, varsK, varsH>>
othersH == <<varsW, varsU, varsR, varsE, varsF, varsD, varsA, varsJ, varsK>>
othersJ == <<varsW, varsU, varsR, varsE, varsF, varsD, varsA, varsK, varsH>>
othersK == <<varsW, varsU, varsR, varsE, varsF, varsD, varsA, varsJ, varsH>>

------------------------------------------------------------------------------
(* The time-window resolver as a state machine: one trigger, one call of    *)
(* each resolver.                                                           *)

\* trigger instants: every hour of the days examined, on the hour and at its
\* last millisecond
NowSet ==
    {d * ONE_DAY_MS + h * HourMs + e :
        d \in 0..MaxDay, h \in 0..23, e \in {0, HourMs - 1}}

InitW ==
    /\ wNow \in NowSet
    /\ wMode \in {"calendar", "rolling"}
    /\ wHours \in {24, 48}
    /\ wZone \in Zones
    /\ wHc \in {"h23", "h24"}
    /\ wResult = NoValue
    /\ wRange = NoValue
    /\ IdleU /\ IdleR /\ IdleE /\ IdleF /\ IdleD /\ IdleA /\ IdleJ /\ IdleK /\ IdleH

\* workflow/index.ts:161  buildTimeWindow(now, windowMode, windowHours, timeZone)
BuildTimeWindow ==
    /\ wResult = NoValue
    /\ wResult' = buildTimeWindow(wNow, wMode, wHours, wZone, wHc)
    /\ UNCHANGED <<wNow, wMode, wHours, wZone, wHc, wRange>>
    /\ UNCHANGED othersW

\* sources/gmail.ts  fetchGmailItems: getYesterdayRangeInChicago(now)
GetYesterdayRange ==
    /\ wRange = NoValue
    /\ wRange' = getYesterdayRangeInChicago(wNow, wHc)
    /\ UNCHANGED <<wNow, wMode, wHours, wZone, wHc, wResult>>
    /\ UNCHANGED othersW

NextW == BuildTimeWindow \/ GetYesterdayRange

SpecWindow == InitW /\ [][NextW]_vars

\* ---- reference notions the claims are stated with

\* the calendar date an instant falls on in a zone
LocalDate(t, timeZone) ==
    CivilFromDays(BaseDay + (t + Offset(timeZone, t)) \div ONE_DAY_MS)

ZoneOffsets == {-6 * HourMs, -5 * HourMs, 0, 8 * HourMs}

\* the UTC instant at which the zone's wall clock shows dateKey hour:minute:second
LocalToUtc(dateKey, timeZone, hour, minute, second) ==
    LET wall == DateUTC(dateKey, hour, minute, second)
    IN  CHOOSE t \in {wall - o : o \in ZoneOffsets} : t + Offset(timeZone, t) = wall

FixedNegativeZones == {"Etc/GMT+6"}

\* C9: in calendar mode buildTimeWindow returns the date of now-24h in the zone,
\* windowStart = 00:00:00 local of that date and windowEnd = 23:59:59 local of
\* that date as UTC instants; for a fixed negative offset the window spans
\* exactly 23h59m59s.
C9_CalendarWindow ==
    (wResult # NoValue /\ wMode = "calendar") =>
        LET key == LocalDate(wNow - ONE_DAY_MS, wZone)
        IN  /\ wResult.windowDateKey = key
            /\ wResult.windowStart = LocalToUtc(key, wZone, 0, 0, 0)
            /\ wResult.windowEnd = LocalToUtc(key, wZone, 23, 59, 59)
            /\ (wZone \in FixedNegativeZones =>
                    wResult.windowEnd - wResult.windowStart
                        = 23 * HourMs + 59 * 60 * 1000 + 59 * 1000)


------------------------------------------------------------------------------
(* unwrapTrackingUrl as a state machine: an href is chosen, the function    *)
(* is applied to it once.                                                   *)

\* 'clicks.x.io', 'us1.list-manage.com' (redirectors) and 'news.x.io'
HostClicks == <<99, 108, 105, 99, 107, 115, 46, 120, 46, 105, 111>>
HostListManage ==
    <<117, 115, 49, 46, 108, 105, 115, 116, 45, 109, 97, 110, 97, 103, 101, 46,
      99, 111, 109>>
HostNews == <<110, 101, 119, 115, 46, 120, 46, 105, 111>>
RedirectorHosts == {HostClicks, HostListManage}

\* '/', '/Track/a', '/a'
PathRoot  == <<47>>
PathTrack == <<47, 84, 114, 97, 99, 107, 47, 97>>
PathA     == <<47, 97>>

\* sequences over S of length at most n
SeqsUpTo(S, n) == UNION {[1..k -> S] : k \in 0..n}

\* the characters after the host of a target: x % 2 0 5 /
TailChars == {120, 37, 50, 48, 53, 47}

\* absolute http(s) targets  http(s)://x/<tail>
Targets ==
    {prefix \o <<120, 47>> \o tail :
        prefix \in {HttpPrefix, HttpsPrefix}, tail \in SeqsUpTo(TailChars, MaxTail)}

\* the link a redirector builds for a target: https://<host>/?url=<encoded target>
WrapTarget(host, target) ==
    [valid |-> TRUE, host |-> host, path |-> PathRoot,
     query |-> <<[name |-> "url", value |-> encodeURIComponent(target)]>>]

\* raw parameter values: an encoded https and http target, a target encoded
\* twice, an unencoded target, a target holding %20, a lone %, an encoded %,
\* plain text, the empty value
HttpsX == HttpsPrefix \o <<120>>
RawValues ==
    {encodeURIComponent(HttpsX),
     encodeURIComponent(HttpPrefix \o <<120>>),
     encodeURIComponent(encodeURIComponent(HttpsX)),
     HttpsX,
     encodeURIComponent(HttpsX \o <<37, 50, 48>>),
     <<37>>,
     <<37, 50, 53>>,
     <<120>>,
     <<>>}

ParamNames == {"url", "u", "destination", "x"}

Queries ==
    SeqsUpTo({[name |-> n, value |-> v] : n \in ParamNames, v \in RawValues}, MaxParams)

\* hrefs handed to unwrapTrackingUrl: one `new URL` rejects, and parsed ones
UnwrapInputs ==
    {[valid |-> FALSE]}
        \cup {[valid |-> TRUE, host |-> h, path |-> p, query |-> q] :
                h \in {HostClicks, HostNews}, p \in {PathRoot, PathTrack, PathA},
                q \in Queries}

InitU ==
    /\ \/ /\ uTarget \in {[text |-> t] : t \in Targets}
          /\ uHref \in {WrapTarget(h, uTarget.text) : h \in RedirectorHosts}
       \/ /\ uTarget = NoValue
          /\ uHref \in UnwrapInputs
    /\ uResult = NoValue
    /\ IdleW /\ IdleR /\ IdleE /\ IdleF /\ IdleD /\ IdleA /\ IdleJ /\ IdleK /\ IdleH

\* one call of unwrapTrackingUrl(href)
Unwrap ==
    /\ uResult = NoValue
    /\ uResult' = unwrapTrackingUrl(uHref)
    /\ UNCHANGED <<uTarget, uHref>>
    /\ UNCHANGED othersU

NextU == Unwrap

SpecUnwrap == InitU /\ [][NextU]_vars

\* ---- reference notions

\* the decoded value of a query parameter: what the link carries once every
\* escape that can be decoded is decoded, whether or not one is malformed
DecodedParam(href, key) ==
    PercentDecode(SearchParamsGet(href.query, key).value, FALSE)

IsHttpText(s) == StartsWith(s, HttpPrefix) \/ StartsWith(s, HttpsPrefix)

IsTrackingUrl(href) ==
    /\ href.valid
    /\ \/ isTrackingHost(ToLower(href.host))
       \/ Includes(ToLower(href.path), TrackSegment)

\* the positions in `candidates` of the parameters carrying an http(s) value
HttpParams(href) ==
    {i \in 1..Len(candidates) : IsHttpText(DecodedParam(href, candidates[i]))}

FirstHttpParam(href) ==
    CHOOSE i \in HttpParams(href) : \A j \in HttpParams(href) : i <= j

\* C7: a link built from a redirector host and url=encodeURIComponent(t) is
\* unwrapped to exactly {href: t, unwrapped: true}.
C7_RoundTrip ==
    (uResult # NoValue /\ uTarget # NoValue) =>
        /\ uResult.kind = "ok"
        /\ uResult.unwrapped
        /\ uResult.href = uTarget

\* C8: unwrapTrackingUrl answers unwrapped = true exactly for a tracking URL
\* that carries an http(s) value in one of the candidate parameters, with the
\* value of the first such parameter as href; for every other input it
\* returns the input href with unwrapped = false.
C8_UnwrapContract ==
    (uResult # NoValue) =>
        /\ uResult.kind = "ok"
        /\ IF IsTrackingUrl(uHref) /\ HttpParams(uHref) # {}
           THEN /\ uResult.unwrapped
                /\ uResult.href
                     = [text |-> DecodedParam(uHref, candidates[FirstHttpParam(uHref)])]
           ELSE /\ ~uResult.unwrapped
                /\ uResult.href = uHref

\* C28: unwrapTrackingUrl never throws: for every input string, a tracking
\* URL whose candidate parameter is not valid percent-encoding once decoded
\* included, it returns a {href, unwrapped} result.
C28_UnwrapNeverThrows ==
    uResult # NoValue =>
        /\ uResult # Throw
        /\ DOMAIN uResult = {"kind", "href", "unwrapped"}


------------------------------------------------------------------------------
(* resolveTrackingRedirect as a state machine: successive calls on one      *)
(* cache, each either returning at once or waiting for its probe.           *)

\* https://clicks.x.io/a, https://us1.list-manage.com/a and an href `new URL`
\* rejects
HrefClicksA == [valid |-> TRUE, host |-> HostClicks, path |-> PathA, query |-> <<>>]
HrefListA   == [valid |-> TRUE, host |-> HostListManage, path |-> PathA, query |-> <<>>]
HrefInvalid == [valid |-> FALSE]

RedirectHrefs == {HrefClicksA, HrefListA, HrefInvalid}

InitR ==
    /\ rCache = EmptyCache
    /\ rPc = "idle"
    /\ rHref = NoValue
    /\ rLast = NoValue
    /\ rProbes = 0
    /\ rCalls = 0
    /\ IdleW /\ IdleU /\ IdleE /\ IdleF /\ IdleD /\ IdleA /\ IdleJ /\ IdleK /\ IdleH

\* resolveTrackingRedirect(href, cache) up to its return or its await
ResolveCall ==
    /\ rPc \in {"idle", "returned"}
    /\ rCalls < MaxCalls
    /\ \E href \in RedirectHrefs :
         LET r == resolveSync(href, rCache)
         IN  /\ rHref' = href
             /\ rCalls' = rCalls + 1
             /\ IF r.done
                THEN /\ rPc' = "returned"
                     /\ rCache' = r.cache
                     /\ rLast' = [href |-> href, via |-> r.via, outcome |-> NoValue,
                                  value |-> r.value]
                     /\ UNCHANGED rProbes
                ELSE /\ rPc' = "awaiting"
                     /\ rProbes' = rProbes + 1
                     /\ rLast' = NoValue
                     /\ UNCHANGED rCache
    /\ UNCHANGED othersR

\* the probe settles and the call caches and returns its value
ResolveSettle ==
    /\ rPc = "awaiting"
    /\ \E outcome \in ProbeOutcomes :
         LET value == resolveSettled(rHref, outcome)
         IN  /\ rCache' = CacheSet(rCache, rHref, value)
             /\ rLast' = [href |-> rHref, via |-> "probe", outcome |-> outcome,
                          value |-> value]
    /\ rPc' = "returned"
    /\ UNCHANGED <<rHref, rProbes, rCalls>>
    /\ UNCHANGED othersR

NextR == ResolveCall \/ ResolveSettle

SpecRedirect == InitR /\ [][NextR]_vars

\* ---- reference notion: the URL a Location header names, seen from the
\* origin of the link that was probed
LocationTarget(href, location) ==
    LET u == UrlWithBase(location, Origin(href))
    IN  IF u.ok THEN [text |-> u.text] ELSE href

\* C6: a call that went to the network returns the Location (a relative one
\* resolved against the origin of href) when the response carries one and the
\* original href on an error, an abort or a response without Location; an
\* unparseable href is returned as it is; the value returned is the one the
\* cache holds for href.
C6_ResolveContract ==
    (rPc = "returned" /\ rLast # NoValue) =>
        /\ rLast.href \in DOMAIN rCache
        /\ rCache[rLast.href] = rLast.value
        /\ (rLast.via = "unparseable" => rLast.value = rLast.href)
        /\ (rLast.via = "probe" =>
               IF /\ rLast.outcome.kind = "response"
                  /\ rLast.outcome.hasLocation
                  /\ rLast.outcome.location # <<>>
               THEN rLast.value = LocationTarget(rLast.href, rLast.outcome.location)
               ELSE rLast.value = rLast.href)

------------------------------------------------------------------------------
(* extractLinks, tracking-resolution stage, as a state machine.  The map    *)
(* over the anchors runs every callback up to its first await before any    *)
(* probe can settle; the probes then settle in any order.                   *)

\* https://clicks.x.io/?url=https%3A%2F%2Fx, https://news.x.io/a and
\* https://clicks.x.io/?url=%25
HrefWrapped   == WrapTarget(HostClicks, HttpsX)
HrefNews      == [valid |-> TRUE, host |-> HostNews, path |-> PathA, query |-> <<>>]
HrefMalformed ==
    [valid |-> TRUE, host |-> HostClicks, path |-> PathRoot,
     query |-> <<[name |-> "url", value |-> <<37, 50, 53>>]>>]

ExtractHrefs ==
    {HrefClicksA, HrefListA, HrefWrapped, HrefNews, HrefInvalid, HrefMalformed}

\* mailto:john_smith@x.io, tel:+1-555-123-4567, #top and
\* https://news.x.io/2024/big-story-x
HrefMailto ==
    [valid |-> TRUE, scheme |-> <<109, 97, 105, 108, 116, 111>>, host |-> <<>>,
     path |-> <<106, 111, 104, 110, 95, 115, 109, 105, 116, 104, 64, 120, 46, 105, 111>>, query |-> <<>>]
HrefTel ==
    [valid |-> TRUE, scheme |-> <<116, 101, 108>>, host |-> <<>>,
     path |-> <<43, 49, 45, 53, 53, 53, 45, 49, 50, 51, 45, 52, 53, 54, 55>>, query |-> <<>>]
HrefFragment == [valid |-> FALSE, raw |-> <<35, 116, 111, 112>>]
HrefStory ==
    [valid |-> TRUE, host |-> HostNews,
     path |-> <<47, 50, 48, 50, 52, 47, 98, 105, 103, 45, 115, 116, 111, 114, 121, 45, 120>>, query |-> <<>>]

\* 'Read more now', 'Full story >>', 'More', 'Unsubscribe here',
\* 'Daily NEWS digest'
TextRead  == <<82, 101, 97, 100, 32, 109, 111, 114, 101, 32, 110, 111, 119>>
TextFull  == <<70, 117, 108, 108, 32, 115, 116, 111, 114, 121, 32, 62, 62>>
TextMore  == <<77, 111, 114, 101>>
TextUnsub == <<85, 110, 115, 117, 98, 115, 99, 114, 105, 98, 101, 32, 104, 101, 114, 101>>
TextNews  == <<68, 97, 105, 108, 121, 32, 78, 69, 87, 83, 32, 100, 105, 103, 101, 115, 116>>

Anchor(href, text) == [href |-> href, text |-> text]

\* anchors that need no probe: addresses, a fragment, an article under several
\* texts, a section page
PlainAnchors ==
    {Anchor(HrefMailto, TextRead), Anchor(HrefTel, TextRead),
     Anchor(HrefFragment, TextRead), Anchor(HrefStory, TextRead),
     Anchor(HrefStory, TextFull), Anchor(HrefStory, TextMore),
     Anchor(HrefStory, <<>>), Anchor(HrefStory, TextUnsub),
     Anchor(HrefStory, TextNews), Anchor(HrefNews, TextRead)}

\* the texts of n anchors under test for their hrefs: 'Read more now' followed
\* by one more '!' from anchor to anchor
GrowingTexts(n) ==
    [i \in 1..n |-> [k \in 1..(Len(TextRead) + i) |->
                        IF k <= Len(TextRead) THEN TextRead[k] ELSE 33]]

BaseRules ==
    [resolveTrackingLinks |-> TRUE, excludeText |-> NoValue,
     includeDomains |-> NoValue, excludeDomains |-> NoValue,
     excludePathKeywords |-> NoValue, includePathKeywords |-> NoValue,
     minArticleScore |-> NoValue, minTextLength |-> NoValue]

\* rules that keep every link the filters let through
TrackingRules ==
    {[BaseRules EXCEPT !.resolveTrackingLinks = b, !.minArticleScore = [n |-> 0]] :
        b \in BOOLEAN}

\* rules with excludeText ['News'] and minArticleScore 1
CustomRules ==
    [BaseRules EXCEPT !.excludeText = [list |-> <<<<78, 101, 119, 115>>>>], !.minArticleScore = [n |-> 1]]

\* articles and pages of news.x.io for the filters after the resolution:
\* /a/b/some-long-slug-here, /, /Webinar/register-now-here,
\* /archive/2024-week-10 and /blog/x
HrefSlug ==
    [valid |-> TRUE, host |-> HostNews,
     path |-> <<47, 97, 47, 98, 47, 115, 111, 109, 101, 45, 108, 111, 110, 103, 45, 115, 108, 117, 103, 45, 104, 101, 114, 101>>, query |-> <<>>]
HrefRoot == [valid |-> TRUE, host |-> HostNews, path |-> PathRoot, query |-> <<>>]
HrefWebinar ==
    [valid |-> TRUE, host |-> HostNews,
     path |-> <<47, 87, 101, 98, 105, 110, 97, 114, 47, 114, 101, 103, 105, 115, 116, 101, 114, 45, 110, 111, 119, 45, 104, 101, 114, 101>>, query |-> <<>>]
HrefArchive ==
    [valid |-> TRUE, host |-> HostNews,
     path |-> <<47, 97, 114, 99, 104, 105, 118, 101, 47, 50, 48, 50, 52, 45, 119, 101, 101, 107, 45, 49, 48>>, query |-> <<>>]
HrefBlog ==
    [valid |-> TRUE, host |-> HostNews,
     path |-> <<47, 98, 108, 111, 103, 47, 120>>, query |-> <<>>]

\* 'Top story!' (10 characters) and 'Hi'
TextTop == <<84, 111, 112, 32, 115, 116, 111, 114, 121, 33>>
TextHi  == <<72, 105>>

\* anchors under test for the path filter and the score
ScoredAnchors ==
    {Anchor(HrefSlug, TextTop), Anchor(HrefSlug, TextHi), Anchor(HrefRoot, TextHi),
     Anchor(HrefRoot, TextTop), Anchor(HrefWebinar, TextRead),
     Anchor(HrefArchive, TextRead), Anchor(HrefBlog, TextHi),
     Anchor(HrefStory, TextHi), Anchor(HrefMailto, TextHi),
     Anchor(HrefFragment, TextRead), Anchor(HrefInvalid, TextRead)}

\* the rules under test for them: the defaults, the thresholds -1, 0 and 3,
\* includePathKeywords ['/Blog/'] with minTextLength 2, and
\* excludePathKeywords ['/Archive'] with the threshold 0
ScoreRules ==
    {BaseRules,
     [BaseRules EXCEPT !.minArticleScore = [n |-> -1]],
     [BaseRules EXCEPT !.minArticleScore = [n |-> 0]],
     [BaseRules EXCEPT !.minArticleScore = [n |-> 3]],
     [BaseRules EXCEPT !.includePathKeywords = [list |-> <<<<47, 66, 108, 111, 103, 47>>>>],
                       !.minTextLength = [n |-> 2]],
     [BaseRules EXCEPT !.excludePathKeywords = [list |-> <<<<47, 65, 114, 99, 104, 105, 118, 101>>>>],
                       !.minArticleScore = [n |-> 0]]}

InitE ==
    /\ \/ /\ eAnchors \in SeqsUpTo(ExtractHrefs, MaxTracked)
          /\ eTexts = GrowingTexts(Len(eAnchors))
          /\ eRules \in TrackingRules
       \/ /\ \E doc \in SeqsUpTo(PlainAnchors, MaxAnchors) :
                /\ eAnchors = [i \in 1..Len(doc) |-> doc[i].href]
                /\ eTexts = [i \in 1..Len(doc) |-> doc[i].text]
          /\ eRules \in {BaseRules, CustomRules}
       \/ /\ \E doc \in SeqsUpTo(ScoredAnchors, MaxScored) :
                /\ eAnchors = [i \in 1..Len(doc) |-> doc[i].href]
                /\ eTexts = [i \in 1..Len(doc) |-> doc[i].text]
          /\ eRules \in ScoreRules
    /\ ePc = "idle"
    /\ eLinks = <<>>
    /\ eCache = EmptyCache
    /\ eProbes = <<>>
    /\ eSettled = <<>>
    /\ eResult = NoValue
    /\ IdleW /\ IdleU /\ IdleR /\ IdleF /\ IdleD /\ IdleA /\ IdleJ /\ IdleK /\ IdleH

\* lines 373-382: the anchors with their hrefs unwrapped
unwrapAnchors(anchors) ==
    [i \in 1..Len(anchors) |-> unwrapTrackingUrl(anchors[i])]

\* lines 390-415, the callbacks of links.map up to their first await, from
\* link i on; st is [out, cache, probes]
RECURSIVE resolveStart(_, _, _)
resolveStart(links, i, st) ==
    IF i > Len(links) THEN st
    ELSE LET link  == links[i]
             needs == /\ ~link.unwrapped
                      /\ link.href.valid
                      /\ isTrackingHost(ToLower(link.href.host))
             r     == resolveSync(link.href, st.cache)
         IN  IF ~needs
             THEN resolveStart(links, i + 1, [st EXCEPT !.out = Append(@, link)])
             ELSE IF r.done
             THEN resolveStart(links, i + 1,
                      [st EXCEPT !.out = Append(@, [link EXCEPT !.href = r.value]),
                                 !.cache = r.cache])
             ELSE resolveStart(links, i + 1,
                      [st EXCEPT !.out = Append(@, [link EXCEPT !.pending = TRUE]),
                                 !.probes = Append(@, link.href)])

\* line 384 with the resolution always on
resolveTrackingLinks_always(rules) == TRUE

\* line 384: rules?.resolveTrackingLinks !== false
resolveTrackingLinks(rules) == rules.resolveTrackingLinks # FALSE

\* extractLinks(html, rules) up to `await Promise.all(...)`
ExtractStart ==
    /\ ePc = "idle"
    /\ LET un == unwrapAnchors(eAnchors)
       IN  IF \E i \in 1..Len(un) : un[i].kind = "throw"
           THEN /\ ePc' = "rejected"
                /\ UNCHANGED <<eLinks, eCache, eProbes, eSettled, eResult>>
           ELSE LET links == [i \in 1..Len(un) |->
                                 [href |-> un[i].href, unwrapped |-> un[i].unwrapped,
                                  rawHref |-> eAnchors[i], pending |-> FALSE,
                                  text |-> eTexts[i], index |-> i]]
                IN  IF resolveTrackingLinks(eRules)
                    THEN LET st == resolveStart(links, 1,
                                      [out |-> <<>>, cache |-> eCache, probes |-> eProbes])
                         IN  /\ ePc' = "resolving"
                             /\ eLinks' = st.out
                             /\ eCache' = st.cache
                             /\ eProbes' = st.probes
                             /\ eSettled' = [i \in 1..Len(links) |-> NoValue]
                             /\ UNCHANGED eResult
                    ELSE /\ ePc' = "resolved"
                         /\ eLinks' = links
                         /\ eSettled' = [i \in 1..Len(links) |-> NoValue]
                         /\ eResult' = keptLinks(links, eRules)
                         /\ UNCHANGED <<eCache, eProbes>>
    /\ UNCHANGED <<eAnchors, eRules, eTexts>>
    /\ UNCHANGED othersE

\* lines 404-414 with the links in the order in which their callbacks return
settleLink_arrival(links, i, value) ==
    SubSeq(links, 1, i - 1) \o SubSeq(links, i + 1, Len(links))
        \o <<[links[i] EXCEPT !.href = value, !.pending = FALSE]>>

\* lines 404-414: the callback of link i returns the link with the resolved
\* href, which Promise.all stores at index i
settleLink(links, i, value) ==
    [links EXCEPT ![i] = [@ EXCEPT !.href = value, !.pending = FALSE]]

\* the probe of one anchor settles: its callback caches and takes the value
ProbeSettle ==
    /\ ePc = "resolving"
    /\ \E i \in 1..Len(eLinks) :
         /\ eLinks[i].pending
         /\ \E outcome \in ProbeOutcomes :
              LET value == resolveSettled(eLinks[i].href, outcome)
              IN  /\ eCache' = CacheSet(eCache, eLinks[i].href, value)
                  /\ eLinks' = settleLink(eLinks, i, value)
                  /\ eSettled' = [eSettled EXCEPT ![eLinks[i].index] = value]
    /\ UNCHANGED <<eAnchors, eRules, ePc, eProbes, eTexts, eResult>>
    /\ UNCHANGED othersE

\* every callback has returned: Promise.all resolves with resolvedLinks and
\* lines 417-511 run
ResolveAllDone ==
    /\ ePc = "resolving"
    /\ \A i \in 1..Len(eLinks) : ~eLinks[i].pending
    /\ ePc' = "resolved"
    /\ eResult' = keptLinks(eLinks, eRules)
    /\ UNCHANGED <<eAnchors, eRules, eLinks, eCache, eProbes, eTexts, eSettled>>
    /\ UNCHANGED othersE

NextE == ExtractStart \/ ProbeSettle \/ ResolveAllDone

SpecExtract == InitE /\ [][NextE]_vars

ProbeCount(href) == Cardinality({i \in 1..Len(eProbes) : eProbes[i] = href})

\* C5: during one extractLinks call at most one probe is issued for each
\* distinct tracking href.
C5_OneProbePerHref ==
    \A i \in 1..Len(eProbes) : ProbeCount(eProbes[i]) <= 1

(* ---- reference notions for the claims on the returned links ---- *)

\* the links a run that awaits the anchors one by one, in document order,
\* hands to the filters: each anchor with the href its own probe settled on
LinksInDocumentOrder ==
    [i \in 1..Len(eAnchors) |->
        [href      |-> IF eSettled[i] # NoValue THEN eSettled[i]
                       ELSE unwrapTrackingUrl(eAnchors[i]).href,
         text      |-> eTexts[i],
         unwrapped |-> unwrapTrackingUrl(eAnchors[i]).unwrapped,
         rawHref   |-> eAnchors[i]]]

\* the resolved links that pass the text filter
TextFiltered == SelectSeq(eLinks, LAMBDA link : passesTextFilter(link, eRules))

\* the positions of list whose href is the given text
SameHref(list, text) == {i \in 1..Len(list) : HrefText(list[i].href) = text}

\* the earliest among the positions with the longest text
LongestEarliest(list, positions) ==
    CHOOSE i \in positions :
        \A j \in positions :
            \/ Len(list[j].text) < Len(list[i].text)
            \/ (Len(list[j].text) = Len(list[i].text) /\ i <= j)

\* the first position of a set of positions
Earliest(positions) == CHOOSE i \in positions : \A j \in positions : i <= j

\* the terms that exclude a display text: the defaults and rules.excludeText
ExcludedTerms == defaultExcludeText \o ListOr(eRules.excludeText)

\* C18: the heuristic extractor is deterministic: whatever the order in which
\* the probes settle, the links it returns are those of the anchors, the
\* rules and the values the probes settled on, in the same order.
C18_Deterministic ==
    ePc = "resolved" => eResult = keptLinks(LinksInDocumentOrder, eRules)

\* two probes have settled on different hrefs and both links are returned
C18_Witness ==
    /\ ePc = "resolved" /\ Len(eAnchors) = 2 /\ Len(eResult) = 2
    /\ eSettled[1] # NoValue /\ eSettled[2] # NoValue
    /\ eSettled[1] # eSettled[2]

\* C19: no returned candidate has an href that starts with mailto:, tel: or
\* #, and none has a display text that contains, in any letter case, a
\* default exclusion term or a term of rules.excludeText.
C19_NoAddressNoExcludedText ==
    ePc = "resolved" =>
        \A k \in 1..Len(eResult) :
            /\ ~StartsWith(ToLower(HrefText(eResult[k].href)), <<109, 97, 105, 108, 116, 111, 58>>)
            /\ ~StartsWith(ToLower(HrefText(eResult[k].href)), <<116, 101, 108, 58>>)
            /\ ~StartsWith(HrefText(eResult[k].href), <<35>>)
            /\ \A t \in 1..Len(ExcludedTerms) :
                  ~Includes(ToLower(eResult[k].text), ToLower(ExcludedTerms[t]))

\* C20: no two returned candidates share their final href; each carries the
\* longest display text among the text-filtered anchors of its href, the
\* earliest one when several are as long; and the candidates follow the order
\* in which their hrefs first occur.
C20_LongestTextSurvives ==
    ePc = "resolved" =>
        \E filtered \in {TextFiltered} :
            /\ \A k, l \in 1..Len(eResult) :
                  HrefText(eResult[k].href) = HrefText(eResult[l].href) => k = l
            /\ \A k \in 1..Len(eResult) :
                  \E same \in {SameHref(filtered, HrefText(eResult[k].href))} :
                      /\ same # {}
                      /\ eResult[k].text = filtered[LongestEarliest(filtered, same)].text
                      /\ eResult[k].rawHref = filtered[LongestEarliest(filtered, same)].rawHref
            /\ \A k, l \in 1..Len(eResult) :
                  k < l =>
                      Earliest(SameHref(filtered, HrefText(eResult[k].href)))
                          < Earliest(SameHref(filtered, HrefText(eResult[l].href)))

\* three anchors of one article, 'More', 'Read more now' and the equally long
\* 'Full story >>': the second one survives
C20_Witness ==
    /\ ePc = "resolved"
    /\ eAnchors = <<HrefStory, HrefStory, HrefStory>>
    /\ eTexts = <<TextMore, TextRead, TextFull>>
    /\ Len(eResult) = 1 /\ eResult[1].text = TextRead


(* ---- reference notions for the claims on the path filter and the score ---- *)

\* the path of a link whose href parses
PathOfLink(link) == ParseUrl(HrefText(link.href)).pathname

\* the positions at which a segment of the path starts
SegmentStarts(path) ==
    {i \in 1..Len(path) : path[i] # 47 /\ (i = 1 \/ path[i - 1] = 47)}

\* the last segment of the path: from its last segment start to the next '/'
FinalSegment(path) ==
    IF SegmentStarts(path) = {} THEN <<>>
    ELSE SubSeq(path,
                CHOOSE i \in SegmentStarts(path) : \A j \in SegmentStarts(path) : j <= i,
                FirstOf(path, {47},
                        CHOOSE i \in SegmentStarts(path) : \A j \in SegmentStarts(path) : j <= i) - 1)

\* the conditions of the score that a path and a display text satisfy, the
\* keywords being compared with the path letter case aside
ConditionsMet(path, text) ==
    {c \in {"depth", "slug", "keyword", "text"} :
        \/ c = "depth" /\ Cardinality(SegmentStarts(path)) >= 2
        \/ c = "slug" /\ Len(FinalSegment(path)) >= 10
                      /\ \E k \in 1..Len(FinalSegment(path)) : FinalSegment(path)[k] \in {45, 95}
        \/ c = "keyword" /\ \E k \in 1..Len(ListOr(eRules.includePathKeywords)) :
                                Includes(ToLower(path), ToLower(ListOr(eRules.includePathKeywords)[k]))
        \/ c = "text" /\ Len(text) >= IF eRules.minTextLength = NoValue THEN 8
                                      ELSE eRules.minTextLength.n}

\* the threshold in force
Threshold == IF eRules.minArticleScore = NoValue THEN 2 ELSE eRules.minArticleScore.n

\* the keywords that exclude a path: the defaults and rules.excludePathKeywords
ExcludedPathKeywords == defaultExcludePathKeywords \o ListOr(eRules.excludePathKeywords)

\* the path holds an excluded keyword, letter case aside
PathExcluded(path) ==
    \E k \in 1..Len(ExcludedPathKeywords) :
        Includes(ToLower(path), ToLower(ExcludedPathKeywords[k]))

\* the candidates that reach the score: deduplicated, with an href that
\* parses, through the domain filter and the path filter
Scored ==
    SelectSeq(uniqueByHref(TextFiltered),
              LAMBDA link :
                  /\ ParseUrl(HrefText(link.href)).ok
                  /\ domainAllowed(ParseUrl(HrefText(link.href)), eRules)
                  /\ ~PathExcluded(PathOfLink(link)))

\* the returned candidates with the href of the link
ReturnedFor(link) ==
    {k \in 1..Len(eResult) : HrefText(eResult[k].href) = HrefText(link.href)}

C22_UnparseableNeverReturned ==
    ePc = "resolved" =>
        \A k \in 1..Len(eResult) : ParseUrl(HrefText(eResult[k].href)).ok

\* with minArticleScore -1 a document holds '#top' and /: only / is returned
C22_Witness ==
    /\ ePc = "resolved"
    /\ eRules.minArticleScore = [n |-> -1]
    /\ eAnchors = <<HrefFragment, HrefRoot>>
    /\ Len(eResult) = 1 /\ eResult[1].href = HrefRoot

\* C23: no returned candidate has a path that contains, letter case aside, a
\* keyword of the default path exclusions or of rules.excludePathKeywords;
\* the defaults apply when the rules bring their own list too.
C23_NoExcludedPath ==
    ePc = "resolved" =>
        \A k \in 1..Len(eResult) :
            /\ ParseUrl(HrefText(eResult[k].href)).ok => ~PathExcluded(PathOfLink(eResult[k]))

\* under rules with excludePathKeywords ['/Archive'] and the threshold 0,
\* /Webinar/register-now-here and /archive/2024-week-10 are both dropped
C23_Witness ==
    /\ ePc = "resolved"
    /\ eRules.excludePathKeywords # NoValue
    /\ eAnchors = <<HrefWebinar, HrefArchive>>
    /\ eResult = <<>>

\* the anchors whose raw href was not unwrapped and has a hostname that holds
\* a tracking keyword
ProbeWorthy ==
    {i \in 1..Len(eAnchors) :
        /\ ~unwrapTrackingUrl(eAnchors[i]).unwrapped
        /\ eAnchors[i].valid
        /\ \E k \in 1..Len(trackingHostnames) :
              Includes(ToLower(eAnchors[i].host), trackingHostnames[k])}

\* C25: a redirect probe is issued for an anchor only if
\* rules.resolveTrackingLinks is not false, its href was not statically
\* unwrapped and its hostname contains a tracking-hostname keyword; when
\* rules.resolveTrackingLinks is false the extraction issues no request and
\* every href is the result of unwrapTrackingUrl on the raw href.
C25_ProbeConditions ==
    ePc \in {"resolving", "resolved"} =>
        /\ \A k \in 1..Len(eProbes) :
              /\ eRules.resolveTrackingLinks # FALSE
              /\ \E i \in ProbeWorthy : eAnchors[i] = eProbes[k]
        /\ eRules.resolveTrackingLinks = FALSE =>
              /\ eProbes = <<>>
              /\ Len(eLinks) = Len(eAnchors)
              /\ \A i \in 1..Len(eLinks) :
                    eLinks[i].href = unwrapTrackingUrl(eAnchors[i]).href
              /\ ePc = "resolved" =>
                    \A k \in 1..Len(eResult) :
                        \E i \in 1..Len(eAnchors) :
                            eResult[k].href = unwrapTrackingUrl(eAnchors[i]).href

\* with the resolution off, a redirector link and a wrapped link are
\* returned without a probe, the first as it was written, the second
\* unwrapped
C25_Witness ==
    /\ ePc = "resolved"
    /\ eRules.resolveTrackingLinks = FALSE
    /\ eAnchors = <<HrefClicksA, HrefWrapped>>
    /\ eProbes = <<>>
    /\ Len(eResult) = 2
    /\ eResult[1].href = HrefClicksA /\ eResult[2].href = [text |-> HttpsX]


------------------------------------------------------------------------------
(* The time filter as a state machine: one run of a fetcher over a fetched  *)
(* feed or a fetched message list whose timestamps lie on and around the    *)
(* bounds of the window in force.                                           *)

LinkA == <<104,116,116,112,115,58,47,47,120,47,97>>      \* "https://x/a"
GuidB == <<104,116,116,112,115,58,47,47,120,47,98>>      \* "https://x/b"

\* the window of a rolling run and the Chicago calendar day before the trigger
FilterWindows(now) ==
    {[start |-> now - ONE_DAY_MS, end |-> now],
     [start |-> zonedTimeToUtc_gmail(getDateKeyInTimeZone(now - ONE_DAY_MS, CHICAGO_TIMEZONE),
                                     CHICAGO_TIMEZONE, 0, 0, 0, "h23"),
      end   |-> zonedTimeToUtc_gmail(getDateKeyInTimeZone(now - ONE_DAY_MS, CHICAGO_TIMEZONE),
                                     CHICAGO_TIMEZONE, 23, 59, 59, "h23")]}

\* the bounds in force: the explicit window, else yesterday in Chicago
BoundsInForce(now, window) ==
    IF window # NoValue THEN window
    ELSE LET range == getYesterdayRangeInChicago(now, "h23")
         IN  [start |-> range.startUtc, end |-> range.endUtc]

\* each bound and the millisecond outside it
AroundBounds(now, window) ==
    {BoundsInForce(now, window).start - 1, BoundsInForce(now, window).start,
     BoundsInForce(now, window).end, BoundsInForce(now, window).end + 1}

\* the dates of feed items: none that parses, and under a window its bounds
\* and the millisecond outside each, else the last second of yesterday in
\* Chicago, the trigger instant and the millisecond on either side of it
PubDates(now, window) ==
    {[parses |-> FALSE, at |-> 0]}
        \cup {[parses |-> TRUE, at |-> t] :
                  t \in IF window # NoValue THEN AroundBounds(now, window)
                        ELSE {BoundsInForce(now, window).end, now - 1, now, now + 1}}

\* an item with a <link>, with a <guid> only, with neither
ItemShapes == {[link |-> LinkA, guid |-> <<>>], [link |-> <<>>, guid |-> GuidB],
               [link |-> <<>>, guid |-> <<>>]}

MakeItem(title, shape, pubDate) ==
    [title |-> title, link |-> shape.link, guid |-> shape.guid, pubDate |-> pubDate]

\* feeds whose i-th item has title i
FeedItems(now, window) ==
    UNION {{[i \in 1..n |-> MakeItem(i, sh[i], dt[i])] :
               sh \in [1..n -> ItemShapes],
               dt \in [1..n -> PubDates(now, window)]} : n \in 0..MaxItems}

FeedDocuments(now, window) ==
    {[kind |-> "fail"]}
        \cup {[kind |-> "ok", item |-> f, entry |-> <<>>] : f \in FeedItems(now, window)}
        \cup {[kind |-> "ok", item |-> <<>>, entry |-> f] : f \in FeedItems(now, window)}

InternalDates(now, window) ==
    {[present |-> FALSE, at |-> 0]}
        \cup {[present |-> TRUE, at |-> t] : t \in AroundBounds(now, window)}

\* what the body of a message gives: no html part, a readable newsletter with
\* one link, an archive page with two, an analysis that fails
MessageShapes ==
    {[hasHtml |-> FALSE, archive |-> "none", jina |-> "ok", page |-> "ok", body |-> "ok",
      ai |-> [kind |-> "links", links |-> <<LinkA>>]],
     [hasHtml |-> TRUE, archive |-> "none", jina |-> "ok", page |-> "ok", body |-> "ok",
      ai |-> [kind |-> "links", links |-> <<LinkA>>]],
     [hasHtml |-> TRUE, archive |-> "link", jina |-> "throw", page |-> "ok", body |-> "ok",
      ai |-> [kind |-> "links", links |-> <<LinkA, GuidB>>]],
     [hasHtml |-> TRUE, archive |-> "none", jina |-> "ok", page |-> "ok", body |-> "ok",
      ai |-> [kind |-> "throw"]]}

\* what the archive link of a message gives: the Jina reader answers; it and
\* the direct fetch both fail while the body is readable; everything is
\* empty; the href of the archive anchor makes unwrapTrackingUrl raise
ContentShapes ==
    {[hasHtml |-> TRUE, archive |-> "link", jina |-> "ok", page |-> "ok", body |-> "ok",
      ai |-> [kind |-> "links", links |-> <<LinkA>>]],
     [hasHtml |-> TRUE, archive |-> "link", jina |-> "empty", page |-> "throw", body |-> "ok",
      ai |-> [kind |-> "links", links |-> <<LinkA>>]],
     [hasHtml |-> TRUE, archive |-> "link", jina |-> "empty", page |-> "empty", body |-> "empty",
      ai |-> [kind |-> "links", links |-> <<LinkA>>]],
     [hasHtml |-> TRUE, archive |-> "throw", jina |-> "ok", page |-> "ok", body |-> "ok",
      ai |-> [kind |-> "links", links |-> <<LinkA>>]]}

\* the messages of a listing: every shape at every date, and the archive
\* shapes at the start of the bounds in force
MessageKinds(now, window) ==
    {[shape |-> sh, date |-> dt] : sh \in MessageShapes, dt \in InternalDates(now, window)}
        \cup {[shape |-> sh,
               date |-> [present |-> TRUE, at |-> BoundsInForce(now, window).start]] :
                 sh \in ContentShapes}

MakeMessage(id, shape, internalDate) ==
    [id |-> id, hasHtml |-> shape.hasHtml, internalDate |-> internalDate,
     archive |-> shape.archive, jina |-> shape.jina, page |-> shape.page,
     body |-> shape.body, ai |-> shape.ai]

\* message lists whose i-th message has id i
MessageLists(now, window) ==
    UNION {{[i \in 1..n |-> MakeMessage(i, kinds[i].shape, kinds[i].date)] :
               kinds \in [1..n -> MessageKinds(now, window)]} : n \in 0..MaxMessages}

FilterSource == [id |-> "s1", type |-> "rss"]

InitF ==
    /\ fNow \in {12 * HourMs, 36 * HourMs}
    /\ fWindow \in {NoValue} \cup FilterWindows(fNow)
    /\ fCall = "none"
    /\ fInput = NoValue
    /\ fOutput = NoValue
    /\ fLookback = NoValue
    /\ fContents = <<>>
    /\ IdleW /\ IdleU /\ IdleR /\ IdleE /\ IdleD /\ IdleA /\ IdleJ /\ IdleK /\ IdleH

\* fetchRssItems(source, now, lookbackDays, window) on a fetched document
RssCall ==
    /\ fCall = "none"
    /\ \E doc \in FeedDocuments(fNow, fWindow), lookbackDays \in {0, 2, 7} :
          /\ fInput' = doc
          /\ fLookback' = [n |-> lookbackDays]
          /\ fOutput' = fetchRssItems(FilterSource, doc, fNow, lookbackDays, fWindow)
    /\ fCall' = "rss"
    /\ UNCHANGED <<fNow, fWindow, fContents>>
    /\ UNCHANGED othersF

\* fetchGmailItems(source, now, lookbackDays, env, window) from line 1848 on,
\* on the messages the mailbox returned
GmailCall ==
    /\ fCall = "none"
    /\ \E messages \in MessageLists(fNow, fWindow), hc \in {"h23", "h24"} :
          /\ fInput' = messages
          /\ fOutput' = gmailLoop(FilterSource, messages, fNow, fWindow,
                                  getYesterdayRangeInChicago(fNow, hc))
          /\ fContents' = gmailContents(FilterSource, messages, fNow, fWindow,
                                        getYesterdayRangeInChicago(fNow, hc))
    /\ fCall' = "gmail"
    /\ UNCHANGED <<fNow, fWindow, fLookback>>
    /\ UNCHANGED othersF

NextF == RssCall \/ GmailCall

SpecFilter == InitF /\ [][NextF]_vars

(* ---- reference notions for the claim ---- *)

\* the items the feed parser read: the <item> elements, else the <entry> ones
FeedItemsRead == IF Len(fInput.item) > 0 THEN fInput.item ELSE fInput.entry

\* the fetcher has emitted a story for the item or message numbered n
Retained(n) == \E k \in 1..Len(fOutput.stories) : fOutput.stories[k].item = n

\* a message that yields stories once it passes the time filter
Productive(m) ==
    /\ m.hasHtml
    /\ newsletterContent(m) \notin {"", "throw"}
    /\ m.ai.kind = "links" /\ Len(m.ai.links) > 0

ReceivedAt(m) == IF m.internalDate.present THEN m.internalDate.at ELSE fNow

\* C10: under an explicit window {start, end} an RSS item (with a url and a
\* parseable date) or a mailbox message (with a readable, link-bearing body)
\* is retained if and only if start <= timestamp <= end, both bounds
\* inclusive, one millisecond outside excluded.
C10_InclusiveWindow ==
    (fCall # "none" /\ fWindow # NoValue) =>
        /\ (fCall = "rss" /\ fInput.kind = "ok") =>
              \A i \in 1..Len(FeedItemsRead) :
                 LET item == FeedItemsRead[i]
                 IN  (ItemUrl(item) # <<>> /\ item.pubDate.parses) =>
                        (Retained(item.title) <=>
                            (fWindow.start <= item.pubDate.at
                                /\ item.pubDate.at <= fWindow.end))
        /\ (fCall = "gmail" /\ fOutput.kind = "ok") =>
              \A i \in 1..Len(fInput) :
                 Productive(fInput[i]) =>
                    (Retained(fInput[i].id) <=>
                        (fWindow.start <= ReceivedAt(fInput[i])
                            /\ ReceivedAt(fInput[i]) <= fWindow.end))

\* a feed with one item dated exactly end, retained, and one dated end + 1 ms,
\* dropped
C10_Witness ==
    /\ fCall = "rss" /\ fWindow # NoValue /\ fInput.kind = "ok"
    /\ \E i, j \in 1..Len(FeedItemsRead) :
          /\ ItemUrl(FeedItemsRead[i]) # <<>> /\ ItemUrl(FeedItemsRead[j]) # <<>>
          /\ FeedItemsRead[i].pubDate = [parses |-> TRUE, at |-> fWindow.end]
          /\ FeedItemsRead[j].pubDate = [parses |-> TRUE, at |-> fWindow.end + 1]
          /\ Retained(FeedItemsRead[i].title)
          /\ ~Retained(FeedItemsRead[j].title)

\* the message passes the time filter of the explicit window
InWindow(m) == fWindow.start <= ReceivedAt(m) /\ ReceivedAt(m) <= fWindow.end

\* the link analysis of the message is reached and raises
AnalysisFails(m) ==
    /\ m.hasHtml
    /\ newsletterContent(m) \notin {"", "throw"}
    /\ m.ai.kind = "throw"

\* the stories the fetcher emitted for the message numbered n
StoriesOf(n) == SelectSeq(fOutput.stories, LAMBDA st : st.item = n)

\* C13: when the link analysis of one message throws, that message adds no
\* Story, the loop goes on, and fetchGmailItems returns the stories of the
\* other messages instead of throwing.
C13_AnalysisFailureSkipsMessage ==
    (/\ fCall = "gmail" /\ fWindow # NoValue
     /\ \A i \in 1..Len(fInput) : newsletterContent(fInput[i]) # "throw") =>
        /\ fOutput.kind = "ok"
        /\ \A i \in 1..Len(fInput) :
              /\ AnalysisFails(fInput[i]) => ~Retained(fInput[i].id)
              /\ (Productive(fInput[i]) /\ InWindow(fInput[i])) =>
                    Len(StoriesOf(fInput[i].id)) = Len(fInput[i].ai.links)

\* the analysis of the first message raises inside the window and the second
\* message still yields its stories
C13_Witness ==
    /\ fCall = "gmail" /\ fWindow # NoValue /\ Len(fInput) = 2
    /\ AnalysisFails(fInput[1]) /\ InWindow(fInput[1])
    /\ Productive(fInput[2]) /\ InWindow(fInput[2])
    /\ fOutput.kind = "ok" /\ Retained(2) /\ ~Retained(1)

\* the Chicago calendar day of an instant
ChicagoDay(t) == LocalDate(t, CHICAGO_TIMEZONE)

\* C24: fetchRssItems drops every item whose publish date is missing or does
\* not parse; under an explicit window an item with a parseable date is kept
\* if and only if the date lies in the window, whatever now and lookbackDays
\* are; without a window it is kept if and only if the date falls on the
\* Chicago day of now and within lookbackDays before now.
C24_DateFilter ==
    (fCall = "rss" /\ fInput.kind = "ok") =>
        \A i \in 1..Len(FeedItemsRead) :
            \E item \in {FeedItemsRead[i]} :
                /\ ~item.pubDate.parses => ~Retained(item.title)
                /\ (ItemUrl(item) # <<>> /\ item.pubDate.parses /\ fWindow # NoValue) =>
                      (Retained(item.title) <=>
                          (fWindow.start <= item.pubDate.at /\ item.pubDate.at <= fWindow.end))
                /\ (ItemUrl(item) # <<>> /\ item.pubDate.parses /\ fWindow = NoValue) =>
                      (Retained(item.title) <=>
                          /\ ChicagoDay(item.pubDate.at) = ChicagoDay(fNow)
                          /\ fNow - fLookback.n * ONE_DAY_MS <= item.pubDate.at
                          /\ item.pubDate.at <= fNow)

\* without a window and with lookbackDays 2, an item dated one millisecond
\* before now is kept while one without a date that parses and one dated the
\* evening before are dropped
C24_Witness ==
    /\ fCall = "rss" /\ fWindow = NoValue /\ fInput.kind = "ok"
    /\ fLookback = [n |-> 2]
    /\ \E i, j \in 1..Len(FeedItemsRead) :
          /\ ItemUrl(FeedItemsRead[i]) # <<>> /\ ItemUrl(FeedItemsRead[j]) # <<>>
          /\ FeedItemsRead[i].pubDate = [parses |-> TRUE, at |-> fNow - 1]
          /\ ~FeedItemsRead[j].pubDate.parses
          /\ Retained(FeedItemsRead[i].title)
          /\ ~Retained(FeedItemsRead[j].title)

\* the message lies in the explicit window and has a body
Eligible(m) == m.hasHtml /\ InWindow(m)

\* an archive anchor is found in the body of the message
ArchiveFound(m) == m.archive # "none"

\* C26: for each in-window message with a non-empty body the content handed
\* to the link analysis follows a fixed order: with an archive anchor, the
\* Jina content of the archive; when that fails or is empty, the text of the
\* fetched archive page; without an archive anchor, or when both attempts
\* fail, the email body; the message is skipped only when all of them are
\* empty, and the email body is never used when an archive attempt gave
\* content.
C26_ContentFallbackOrder ==
    (fCall = "gmail" /\ fWindow # NoValue) =>
        \A i \in 1..Len(fInput) :
            \E m \in {fInput[i]} :
                Eligible(m) =>
                    /\ (ArchiveFound(m) /\ m.jina = "ok") => fContents[i] = "jina"
                    /\ (ArchiveFound(m) /\ m.jina # "ok" /\ m.page = "ok") =>
                          fContents[i] = "archive"
                    /\ ((~ArchiveFound(m) \/ (m.jina # "ok" /\ m.page # "ok"))
                            /\ m.body = "ok") => fContents[i] = "email"
                    /\ fContents[i] \in {"jina", "archive", "email", ""}
                    /\ fContents[i] = "" =>
                          /\ m.body = "empty"
                          /\ ArchiveFound(m) => (m.jina # "ok" /\ m.page # "ok")


------------------------------------------------------------------------------
(* The dispatcher as a state machine: one call of getStoriesFromSources,   *)
(* the network answers arriving in any order.                               *)

RelativeA == <<47,97>>                 \* "/a"
TagGuid   == <<116,97,103,58,120>>     \* "tag:x"

MakeSource(id, kind) ==
    [id |-> id, type |-> kind.type, url |-> kind.url, label |-> kind.label,
     enabled |-> kind.enabled, lookbackDays |-> kind.lookbackDays]

SourceKinds ==
    {[type |-> "rss", url |-> LinkA, label |-> "", enabled |-> "unset",
      lookbackDays |-> NoValue],
     [type |-> "rss", url |-> LinkA, label |-> "", enabled |-> "false",
      lookbackDays |-> [days |-> 2]],
     [type |-> "url", url |-> LinkA, label |-> "", enabled |-> "true",
      lookbackDays |-> NoValue],
     [type |-> "url", url |-> RelativeA, label |-> "", enabled |-> "unset",
      lookbackDays |-> NoValue],
     [type |-> "gmail", url |-> LinkA, label |-> "Spectrum", enabled |-> "unset",
      lookbackDays |-> NoValue],
     [type |-> "gmail", url |-> LinkA, label |-> "", enabled |-> "unset",
      lookbackDays |-> NoValue],
     [type |-> "podcast", url |-> LinkA, label |-> "", enabled |-> "unset",
      lookbackDays |-> NoValue]}

\* configurations whose i-th source has id i; as in config.example.ts, a
\* configuration reads one mailbox label at most
SourceLists ==
    UNION {{[i \in 1..n |-> MakeSource(i, k[i])] :
               k \in {c \in [1..n -> SourceKinds] :
                         \A i, j \in 1..n :
                            (c[i].label # "" /\ c[j].label # "") => i = j}} :
               n \in 0..MaxSources}

DispatchNow == 12 * HourMs

DispatchOptions ==
    {[now |-> DispatchNow, env |-> e, window |-> w] :
        e \in {NoValue, [credentials |-> TRUE], [credentials |-> FALSE]},
        w \in {NoValue, [start |-> DispatchNow - ONE_DAY_MS, end |-> DispatchNow]}}

\* what a feed request may answer: a failure, an empty feed, two dated items,
\* an item that has a <guid> only
DispatchFeeds(now) ==
    LET today == [parses |-> TRUE, at |-> now - HourMs]
    IN  {[kind |-> "fail"],
         [kind |-> "ok", item |-> <<>>, entry |-> <<>>],
         [kind |-> "ok", entry |-> <<>>,
          item |-> <<MakeItem(1, [link |-> LinkA, guid |-> <<>>], today),
                     MakeItem(2, [link |-> <<>>, guid |-> GuidB], today)>>],
         [kind |-> "ok", entry |-> <<>>,
          item |-> <<MakeItem(1, [link |-> <<>>, guid |-> TagGuid], today)>>]}

\* the mailbox lists the newest message first: ids n, n-1, ..., 1
RefLists == {[i \in 1..n |-> n + 1 - i] : n \in 0..MaxMessages}

\* what a message request may answer, beside a failure: a newsletter with two
\* links, a newsletter whose body makes htmlToPlainText throw
DispatchMessages(id, now) ==
    LET received == [present |-> TRUE, at |-> now - ONE_DAY_MS]
    IN  {[id |-> id, hasHtml |-> TRUE, internalDate |-> received, archive |-> "none",
          jina |-> "ok", page |-> "ok", body |-> "ok",
          ai |-> [kind |-> "links", links |-> <<LinkA, GuidB>>]],
         [id |-> id, hasHtml |-> TRUE, internalDate |-> received, archive |-> "none",
          jina |-> "ok", page |-> "ok", body |-> "throw",
          ai |-> [kind |-> "links", links |-> <<LinkA>>]]}

InitD ==
    /\ dSources \in SourceLists
    /\ dOptions \in DispatchOptions
    /\ dPc = "idle"
    /\ dEnabled = <<>>
    /\ dBranch = <<>>
    /\ dGroups = <<>>
    /\ dResult = NoValue
    /\ dOrder = <<>>
    /\ IdleW /\ IdleU /\ IdleR /\ IdleE /\ IdleF /\ IdleA /\ IdleJ /\ IdleK /\ IdleH

\* getStoriesFromSources(options) up to the await on Promise.all: every
\* callback has run to its first network request or to its end
GetStories ==
    /\ dPc = "idle"
    /\ LET enabledSources == SelectSeq(dSources, isEnabled)
           branches == [j \in 1..Len(enabledSources) |->
                           startBranch(enabledSources[j], dOptions)]
           groups   == storeStarted(branches, Len(branches))
       IN  /\ dEnabled' = enabledSources
           /\ dBranch' = branches
           /\ dGroups' = groups
           /\ dPc' = IF AnyRejected(branches) THEN "rejected"
                     ELSE IF AllFilled(groups) THEN "resolved" ELSE "awaiting"
           /\ dResult' = IF ~AnyRejected(branches) /\ AllFilled(groups)
                         THEN flat(groups) ELSE NoValue
           /\ dOrder' = SelectSeq([j \in 1..Len(branches) |-> j],
                                  LAMBDA j : branches[j].pc \in {"fulfilled", "rejected"})
    /\ UNCHANGED <<dSources, dOptions>>
    /\ UNCHANGED othersD

\* the callback of source j ends with `outcome`: its promise settles, and
\* Promise.all fills its slot, fulfils when no slot is left, or rejects
Settle(j, outcome, branch) ==
    LET groups == IF outcome.kind = "ok"
                  THEN promiseAllStore(dGroups, j, outcome.stories) ELSE dGroups
        pc     == IF dPc # "awaiting" THEN dPc
                  ELSE IF outcome.kind = "throw" THEN "rejected"
                  ELSE IF AllFilled(groups) THEN "resolved" ELSE "awaiting"
    IN  /\ dBranch' = [dBranch EXCEPT ![j] =
                          [branch EXCEPT !.pc = IF outcome.kind = "ok" THEN "fulfilled"
                                                ELSE "rejected",
                                         !.got = <<>>,
                                         !.arrived = {},
                                         !.value = IF outcome.kind = "ok"
                                                   THEN outcome.stories ELSE <<>>]]
        /\ dGroups' = groups
        /\ dPc' = pc
        /\ dResult' = IF dPc = "awaiting" /\ pc = "resolved" THEN flat(groups) ELSE dResult
        /\ dOrder' = Append(dOrder, j)

\* the feed request of an rss source answers
RssSettle ==
    /\ \E j \in 1..Len(dBranch), doc \in DispatchFeeds(dOptions.now) :
          /\ dBranch[j].pc = "fetching"
          /\ Settle(j,
                    fetchRssItems(dEnabled[j], doc, dOptions.now,
                                  getLookbackDays(dEnabled[j], defaultLookbackDays),
                                  dOptions.window),
                    [dBranch[j] EXCEPT !.fetched = doc.kind])
    /\ UNCHANGED <<dSources, dOptions, dEnabled>>
    /\ UNCHANGED othersD

\* the token request of fetchAccessToken answers
GmailToken ==
    /\ \E j \in 1..Len(dBranch), granted \in BOOLEAN :
          /\ dBranch[j].pc = "token"
          /\ IF granted
             THEN /\ dBranch' = [dBranch EXCEPT ![j].pc = "listing"]
                  /\ UNCHANGED <<dGroups, dPc, dResult, dOrder>>
             ELSE Settle(j, Throw, dBranch[j])
    /\ UNCHANGED <<dSources, dOptions, dEnabled>>
    /\ UNCHANGED othersD

\* the request of listMessages answers; the message requests start together
GmailList ==
    /\ \E j \in 1..Len(dBranch), listed \in BOOLEAN, messageRefs \in RefLists :
          /\ dBranch[j].pc = "listing"
          /\ IF ~listed THEN Settle(j, Throw, dBranch[j])
             ELSE IF messageRefs = <<>>
             THEN Settle(j, [kind |-> "ok", stories |-> <<>>], dBranch[j])
             ELSE /\ dBranch' = [dBranch EXCEPT ![j] =
                                    [@ EXCEPT !.pc = "getting",
                                              !.refs = messageRefs,
                                              !.got = [i \in 1..Len(messageRefs) |-> Pending]]]
                  /\ UNCHANGED <<dGroups, dPc, dResult, dOrder>>
    /\ UNCHANGED <<dSources, dOptions, dEnabled>>
    /\ UNCHANGED othersD

\* one request of getMessage answers: the inner Promise.all fills the slot of
\* the message, or rejects and fetchGmailItems with it
GmailGet ==
    /\ \E j \in 1..Len(dBranch) :
          /\ dBranch[j].pc = "getting"
          /\ \E i \in (1..Len(dBranch[j].refs)) \ dBranch[j].arrived, answered \in BOOLEAN :
                IF ~answered THEN Settle(j, Throw, dBranch[j])
                ELSE \E message \in DispatchMessages(dBranch[j].refs[i], dOptions.now) :
                        /\ dBranch' = [dBranch EXCEPT ![j] =
                              [@ EXCEPT
                                 !.got = promiseAllStore(@, i, message),
                                 !.arrived = @ \cup {i},
                                 !.reordered = @ \/ \E k \in dBranch[j].arrived : k > i,
                                 !.pc = IF dBranch[j].arrived \cup {i}
                                              = 1..Len(dBranch[j].refs)
                                        THEN "processing" ELSE "getting"]]
                        /\ UNCHANGED <<dGroups, dPc, dResult, dOrder>>
    /\ UNCHANGED <<dSources, dOptions, dEnabled>>
    /\ UNCHANGED othersD

\* the loop of fetchGmailItems over the fetched messages, to its return or throw
GmailProcess ==
    /\ \E j \in 1..Len(dBranch), hc \in {"h23", "h24"} :
          /\ dBranch[j].pc = "processing"
          /\ Settle(j,
                    gmailLoop(dEnabled[j],
                              [i \in 1..Len(dBranch[j].got) |-> dBranch[j].got[i].value],
                              dOptions.now, dOptions.window,
                              getYesterdayRangeInChicago(dOptions.now, hc)),
                    dBranch[j])
    /\ UNCHANGED <<dSources, dOptions, dEnabled>>
    /\ UNCHANGED othersD

NextD == GetStories \/ RssSettle \/ GmailToken \/ GmailList \/ GmailGet \/ GmailProcess

SpecDispatch == InitD /\ [][NextD]_vars

(* ---- reference notions for the claims ---- *)

\* the text parses as an absolute URL of scheme http or https with a host
IsAbsoluteHttpUrl(text) ==
    \/ StartsWith(text, HttpPrefix) /\ Len(text) > Len(HttpPrefix)
    \/ StartsWith(text, HttpsPrefix) /\ Len(text) > Len(HttpsPrefix)

AllSettled ==
    /\ dPc # "idle"
    /\ \A j \in 1..Len(dBranch) : dBranch[j].pc \in {"fulfilled", "rejected"}

\* the lists the branches have returned, concatenated in declared order,
\* leaving out branch `skip` (0 leaves out none)
RECURSIVE ConcatBranches(_, _, _)
ConcatBranches(branches, j, skip) ==
    IF j > Len(branches) THEN <<>>
    ELSE (IF j = skip THEN <<>> ELSE branches[j].value)
            \o ConcatBranches(branches, j + 1, skip)

\* the place of message id in the list the mailbox returned
PositionIn(refs, id) == CHOOSE i \in 1..Len(refs) : refs[i] = id

UnreachableFeed(j) ==
    dEnabled[j].type = "rss" /\ dBranch[j].fetched = "fail"

\* C1: every Story the call returns has a url that parses as an absolute
\* http(s) URL; candidates with any other url are discarded.
C1_AbsoluteHttpUrls ==
    dPc = "resolved" =>
        \A k \in 1..Len(dResult) : IsAbsoluteHttpUrl(dResult[k].url)

\* C2: when the branch of one enabled source throws, the call still resolves
\* and returns the stories of every other enabled source.
C2_BranchFailureIsolated ==
    AllSettled =>
        /\ dPc = "resolved"
        /\ \A j \in 1..Len(dBranch) :
              dBranch[j].pc = "rejected" => dResult = ConcatBranches(dBranch, 1, j)

\* C3: an rss source whose feed cannot be fetched contributes an empty list
\* and does not throw, and a call that resolves returns exactly the stories
\* of the other sources.
C3_UnreachableFeedIsolated ==
    \A j \in 1..Len(dBranch) :
        UnreachableFeed(j) =>
            /\ dBranch[j].pc = "fulfilled"
            /\ dBranch[j].value = <<>>
            /\ dPc = "resolved" => dResult = ConcatBranches(dBranch, 1, j)

\* a resolved call with an unreachable feed and another source's stories
C3_Witness ==
    /\ dPc = "resolved"
    /\ \E j \in 1..Len(dBranch) : UnreachableFeed(j)
    /\ Len(dResult) > 0

\* C4: the returned array is the concatenation of the per-source lists in
\* declared order, whatever the order in which the branches complete; the
\* stories of a gmail source follow the order of the mailbox's message list.
C4_DeclaredOrder ==
    /\ dPc = "resolved" => dResult = ConcatBranches(dBranch, 1, 0)
    /\ \A j \in 1..Len(dBranch) :
          (dEnabled[j].type = "gmail" /\ dBranch[j].pc = "fulfilled") =>
              \A k, l \in 1..Len(dBranch[j].value) :
                 k < l =>
                    LET a == dBranch[j].value[k]
                        b == dBranch[j].value[l]
                    IN  \/ PositionIn(dBranch[j].refs, a.item)
                              < PositionIn(dBranch[j].refs, b.item)
                        \/ a.item = b.item /\ a.index < b.index

\* a later source settled before an earlier one, the earlier one a mailbox
\* whose messages arrived out of order, and both contributed stories
C4_Witness ==
    /\ dPc = "resolved"
    /\ \E i, j \in 1..Len(dOrder) :
          /\ i < j /\ dOrder[i] > dOrder[j]
          /\ dBranch[dOrder[i]].value # <<>>
          /\ dBranch[dOrder[j]].value # <<>>
          /\ dBranch[dOrder[j]].reordered

\* a gmail source that lacks its label, the mailbox environment or credentials
MisconfiguredMailbox(source, options) ==
    /\ source.type = "gmail"
    /\ \/ source.label = ""
       \/ options.env = NoValue
       \/ ~options.env.credentials

\* C12: a configuration error of a gmail source (no label, no mailbox
\* environment, no credentials) makes the branch of that source throw; it is
\* never turned into an empty result.
C12_ConfigErrorsThrow ==
    dPc # "idle" =>
        \A j \in 1..Len(dBranch) :
            MisconfiguredMailbox(dEnabled[j], dOptions) => dBranch[j].pc = "rejected"

\* C17: no two Story records returned by one call have the same id.
C17_UniqueIds ==
    dPc = "resolved" =>
        \A k, l \in 1..Len(dResult) : dResult[k].id = dResult[l].id => k = l


------------------------------------------------------------------------------
(* extractNewsletterLinksWithAi as a state machine: the call invokes the    *)
(* model, reads the response, invokes the model once more when line 1680    *)
(* says so, starts the callbacks of the Promise.all, whose probes settle in *)
(* any order, and returns.                                                  *)

\* https://news.x.io/<k-th letter><hash>
NewsUrl(k, hash) ==
    [valid |-> TRUE, host |-> HostNews, path |-> <<47, 96 + k>>, query |-> <<>>,
     hash |-> hash]

AiLink(href) ==
    [kind |-> "url", scheme |-> "https", href |-> href, pad |-> FALSE, trail |-> <<>>]

Obj(link) == [kind |-> "object", link |-> link, url |-> NoValue, title |-> NoValue]

\* n objects whose links are news URLs a, a + 1, ...
Run(a, n, hash) == [k \in 1..n |-> Obj(AiLink(NewsUrl(a + k - 1, hash)))]

\* '#s'
HashS == <<35, 115>>

\* a run from URL 1 on, followed by a run that repeats it or continues it,
\* with or without fragments
RunLists ==
    UNION {{Run(1, n, <<>>) \o Run(b, m, h) :
               m \in 0..(MaxLinks - n), b \in {1, n + 1}, h \in {<<>>, HashS}} :
           n \in 0..MaxLinks}

\* lists of elements of other kinds: redirector links (probed), a wrapped and
\* a malformed one, a link the probe of another may lead to, an ftp link, a
\* padded link with a trailing full stop, a link under `url`, an object
\* without link, a scalar, blank and empty link strings
SpecialLists ==
    {<<>>,
     <<Obj(AiLink(HrefClicksA))>>,
     <<Obj(AiLink(HrefClicksA)), Obj(AiLink(HrefClicksA))>>,
     <<Obj(AiLink(HrefClicksA)), Obj(AiLink(HrefListA))>>,
     <<Obj(AiLink(NewsUrl(1, <<>>))), Obj(AiLink(HrefClicksA))>>,
     <<Obj(AiLink(HrefWrapped)), Obj(AiLink(NewsUrl(1, HashS)))>>,
     <<Obj(AiLink(NewsUrl(1, <<>>))), Obj(AiLink(HrefMalformed))>>,
     <<Obj([AiLink(NewsUrl(1, <<>>)) EXCEPT !.scheme = "ftp"]),
       Obj(AiLink(NewsUrl(2, <<>>)))>>,
     <<Obj([AiLink(NewsUrl(1, <<>>)) EXCEPT !.pad = TRUE, !.trail = <<46>>])>>,
     <<[Obj(NoValue) EXCEPT !.url = AiLink(NewsUrl(2, <<>>))]>>,
     <<Obj(NoValue)>>,
     <<[kind |-> "scalar"]>>,
     <<Obj([kind |-> "space"])>>,
     <<Obj([kind |-> "empty"])>>}

\* the JSON text of a list: its elements between brackets, a comma and a
\* blank between two of them
RECURSIVE ElementsText(_)
ElementsText(items) ==
    IF items = <<>> THEN <<>>
    ELSE IF Len(items) = 1 THEN <<ItemTok(Head(items))>>
    ELSE <<ItemTok(Head(items)), Tok(","), Tok("ws")>> \o ElementsText(Tail(items))

Bare(items) == <<Tok("[")>> \o ElementsText(items) \o <<Tok("]")>>
Fenced(items) ==
    <<Tok("fence"), Tok("ws")>> \o Bare(items) \o <<Tok("ws"), Tok("fence"), Tok("ws")>>
\* 'Sure, here are the links: [...]'
ProsePrefixed(items) == <<Tok("prose"), Tok("ws")>> \o Bare(items)

\* words only; an array cut off; white space; '[see above]'
BrokenTexts ==
    {<<Tok("prose")>>,
     <<Tok("["), ItemTok(Obj(AiLink(NewsUrl(1, <<>>)))), Tok(",")>>,
     <<Tok("ws"), Tok("ws")>>,
     <<Tok("["), Tok("prose"), Tok("]")>>}

ResponseTexts ==
    {Bare(l) : l \in RunLists \cup SpecialLists}
        \cup {Fenced(l) : l \in SpecialLists}
        \cup {ProsePrefixed(l) : l \in SpecialLists}
        \cup BrokenTexts

\* what createResponseText gives: it throws (API error, empty output) or
\* returns a text that is not empty
Responses == {Throw} \cup {[kind |-> "text", text |-> t] : t \in ResponseTexts}

InitA ==
    /\ aRules \in {[resolveTrackingLinks |-> b] : b \in BOOLEAN}
    /\ aPc = "idle"
    /\ aCalls = 0
    /\ aTexts = <<>>
    /\ aLinks = <<>>
    /\ aCache = EmptyCache
    /\ aProbes = <<>>
    /\ aResult = NoValue
    /\ IdleW /\ IdleU /\ IdleR /\ IdleE /\ IdleF /\ IdleD /\ IdleJ /\ IdleK /\ IdleH

\* lines 1649-1664: the call up to its first await
AiInvoke ==
    /\ aPc = "idle"
    /\ aPc' = "first"
    /\ aCalls' = 1
    /\ UNCHANGED <<aRules, aTexts, aLinks, aCache, aProbes, aResult>>
    /\ UNCHANGED othersA

\* lines 1705-1741 up to `await Promise.all(...)`: every callback runs to its
\* return or to its probe; a callback whose unwrapTrackingUrl raises rejects
\* the Promise.all
StartCandidates(raw) ==
    \E cands \in {normalizeCandidates(raw)} :
        IF \E i \in 1..Len(cands) : cands[i].unwrap.kind = "throw"
        THEN /\ aPc' = "thrown"
             /\ UNCHANGED <<aLinks, aCache, aProbes>>
        ELSE \E links \in {[i \in 1..Len(cands) |->
                               [href |-> cands[i].unwrap.href,
                                unwrapped |-> cands[i].unwrap.unwrapped,
                                title |-> cands[i].title, pending |-> FALSE]]} :
                 IF aRules.resolveTrackingLinks
                 THEN \E st \in {resolveStart(links, 1,
                                    [out |-> <<>>, cache |-> aCache, probes |-> aProbes])} :
                          /\ aPc' = "resolving"
                          /\ aLinks' = st.out
                          /\ aCache' = st.cache
                          /\ aProbes' = st.probes
                 ELSE /\ aPc' = "resolving"
                      /\ aLinks' = links
                      /\ UNCHANGED <<aCache, aProbes>>

\* lines 1656-1704: the first response arrives
AiFirstResponse ==
    /\ aPc = "first"
    /\ \E r \in Responses :
         IF r.kind = "throw"
         THEN /\ aPc' = "thrown"
              /\ UNCHANGED <<aCalls, aTexts, aLinks, aCache, aProbes>>
         ELSE /\ aTexts' = <<r.text>>
              /\ IF needsRetry(r.text)
                 THEN /\ aPc' = "retry"
                      /\ aCalls' = aCalls + 1
                      /\ UNCHANGED <<aLinks, aCache, aProbes>>
                 ELSE /\ \E raw \in {parseNewsletterLinks(r.text)} : StartCandidates(raw)
                      /\ UNCHANGED aCalls
    /\ UNCHANGED <<aRules, aResult>>
    /\ UNCHANGED othersA

\* lines 1682-1741: the response to the second call arrives
AiRetryResponse ==
    /\ aPc = "retry"
    /\ \E r \in Responses :
         IF r.kind = "throw"
         THEN /\ aPc' = "thrown"
              /\ UNCHANGED <<aTexts, aLinks, aCache, aProbes>>
         ELSE /\ aTexts' = Append(aTexts, r.text)
              /\ \E raw \in {parseNewsletterLinks(r.text)} : StartCandidates(raw)
    /\ UNCHANGED <<aRules, aCalls, aResult>>
    /\ UNCHANGED othersA

\* the probe of one candidate settles
AiProbeSettle ==
    /\ aPc = "resolving"
    /\ \E i \in 1..Len(aLinks) :
         /\ aLinks[i].pending
         /\ \E outcome \in ProbeOutcomes :
              /\ aCache' = CacheSet(aCache, aLinks[i].href,
                                    resolveSettled(aLinks[i].href, outcome))
              /\ aLinks' = [aLinks EXCEPT ![i] =
                               [@ EXCEPT !.href = resolveSettled(aLinks[i].href, outcome),
                                         !.pending = FALSE]]
    /\ UNCHANGED <<aRules, aPc, aCalls, aTexts, aProbes, aResult>>
    /\ UNCHANGED othersA

\* lines 1743-1782: every callback has returned
AiReturn ==
    /\ aPc = "resolving"
    /\ \A i \in 1..Len(aLinks) : ~aLinks[i].pending
    /\ aResult' = newsletterResults(aLinks)
    /\ aPc' = "returned"
    /\ UNCHANGED <<aRules, aCalls, aTexts, aLinks, aCache, aProbes>>
    /\ UNCHANGED othersA

NextA == AiInvoke \/ AiFirstResponse \/ AiRetryResponse \/ AiProbeSettle \/ AiReturn

SpecNewsletter == InitA /\ [][NextA]_vars

(* ---- reference notions for the claims ---- *)

\* the text of a link up to its fragment
WithoutFragment(text) == SubSeq(text, 1, FirstOf(text, {35}, 1) - 1)

\* the settled candidates whose link is a URL, in the order of the response
UsableSettled == SelectSeq(aLinks, LAMBDA l : isParseableLink(l.href))

\* the positions of keys that hold the first occurrence of their key
FirstSeen(keys) ==
    {i \in 1..Len(keys) : \A j \in 1..(i - 1) : keys[j] # keys[i]}

\* the first response is 'words, then a JSON array with usable elements'
ProsePrefixedFirst ==
    /\ Len(aTexts) >= 1
    /\ \E l \in SpecialLists : Len(linkCandidates(l)) > 0 /\ aTexts[1] = ProsePrefixed(l)

\* C14: one call invokes the model at most twice, and the second invocation
\* happens exactly when the first response is not blank and its parsing
\* yields no usable element.
C14_AtMostOneRetry ==
    /\ aCalls <= 2
    /\ aCalls = 2 <=>
           /\ Len(aTexts) >= 1
           /\ isNonBlank(aTexts[1])
           /\ Len(parseNewsletterLinks(aTexts[1])) = 0

\* a call that returned links after its second invocation
C14_Witness ==
    /\ aPc = "returned" /\ aCalls = 2 /\ Len(aTexts) = 2 /\ Len(aResult) > 0

\* C15: a first response made of words followed by a JSON array is treated as
\* invalid: the model is invoked a second time and the result comes from the
\* second response.
C15_ProsePrefixRetried ==
    ProsePrefixedFirst => aCalls = 2

\* C16: the result has at most 10 entries, no two of them with the same URL
\* once the fragment is removed, in first-seen order, and exactly the first
\* 10 distinct ones when there are more.
C16_DedupedAndCapped ==
    aPc = "returned" =>
        \E settled \in {UsableSettled} :
        \E keys \in {[i \in 1..Len(settled) |-> WithoutFragment(HrefText(settled[i].href))]} :
        \E firsts \in {FirstSeen(keys)} :
            /\ Len(aResult) <= 10
            /\ Len(aResult) = (IF Cardinality(firsts) > 10 THEN 10 ELSE Cardinality(firsts))
            /\ \A k, l \in 1..Len(aResult) :
                  WithoutFragment(HrefText(aResult[k].link))
                      = WithoutFragment(HrefText(aResult[l].link)) => k = l
            /\ \A i \in firsts :
                  Cardinality({j \in firsts : j <= i}) <= 10 =>
                      aResult[Cardinality({j \in firsts : j <= i})].link = settled[i].href

\* a response with more than 10 distinct links and a repeated one, cut to 10
C16_Witness ==
    /\ aPc = "returned" /\ Len(aResult) = 10
    /\ \E keys \in {[i \in 1..Len(UsableSettled) |->
                       WithoutFragment(HrefText(UsableSettled[i].href))]} :
          /\ Cardinality(FirstSeen(keys)) > 10
          /\ Len(keys) > Cardinality(FirstSeen(keys))

------------------------------------------------------------------------------
(* workflow/utils.ts: getContentFromJinaWithRetry as a state machine.  The   *)
(* options are [retryLimit, retryDelayMs], each NoValue or [n |-> number];   *)
(* an error is [response, status], the status of its response and its own    *)
(* status, each NoValue or [n |-> number].  The call stands still while      *)
(* getContentFromJina or sleep is awaited.                                   *)

\* utils.ts:21-22  options?.retryLimit ?? 2 and options?.retryDelayMs ?? 2000
defaultRetryLimit == 2
defaultRetryDelayMs == 2000

\* lines 9-12: err?.response?.status ?? err?.status
getErrorStatus(error) ==
    IF error.response # NoValue THEN error.response ELSE error.status

\* line 30 with every error retried until the last attempt
shouldRethrow_lastOnly(status, attempt, limit) == attempt >= limit

\* line 30: status !== 429 || attempt >= retryLimit
shouldRethrow(status, attempt, limit) ==
    status # [n |-> 429] \/ attempt >= limit

\* the errors getContentFromJina raises: 429 and 500 on the response, 429 on
\* the error itself, 500 on the response with 429 on the error, no status
JinaErrors ==
    {[response |-> [n |-> 429], status |-> NoValue],
     [response |-> [n |-> 500], status |-> NoValue],
     [response |-> NoValue, status |-> [n |-> 429]],
     [response |-> [n |-> 500], status |-> [n |-> 429]],
     [response |-> NoValue, status |-> NoValue]}

JinaOptions ==
    {NoValue}
        \cup {[retryLimit |-> l, retryDelayMs |-> d] :
                 l \in {NoValue} \cup {[n |-> k] : k \in -1..MaxRetryLimit},
                 d \in {NoValue, [n |-> 0], [n |-> 500]}}

InitJ ==
    /\ jOptions \in JinaOptions
    /\ jPc = "idle"
    /\ jAttempt = 0
    /\ jDelay = 0
    /\ jCalls = 0
    /\ jErrors = <<>>
    /\ jSleeps = <<>>
    /\ jResult = NoValue
    /\ IdleW /\ IdleU /\ IdleR /\ IdleE /\ IdleF /\ IdleD /\ IdleA /\ IdleK /\ IdleH

\* lines 21-22
retryLimitOf(options) ==
    IF options = NoValue THEN defaultRetryLimit
    ELSE NumberOr(options.retryLimit, defaultRetryLimit)
retryDelayMsOf(options) ==
    IF options = NoValue THEN defaultRetryDelayMs
    ELSE NumberOr(options.retryDelayMs, defaultRetryDelayMs)

\* the call starts: lines 21-26 up to the first await, or line 39 when the
\* loop has no turn
JinaInvoke ==
    /\ jPc = "idle"
    /\ jDelay' = retryDelayMsOf(jOptions)
    /\ IF 0 <= retryLimitOf(jOptions)
       THEN /\ jPc' = "attempting"
            /\ jCalls' = jCalls + 1
            /\ UNCHANGED jResult
       ELSE /\ jPc' = "returned"
            /\ jResult' = [kind |-> "empty"]
            /\ UNCHANGED jCalls
    /\ UNCHANGED <<jOptions, jAttempt, jErrors, jSleeps>>
    /\ UNCHANGED othersJ

\* getContentFromJina resolves: line 26 returns its content
JinaSucceeds ==
    /\ jPc = "attempting"
    /\ jPc' = "returned"
    /\ jResult' = [kind |-> "content", attempt |-> jAttempt]
    /\ UNCHANGED <<jOptions, jAttempt, jDelay, jCalls, jErrors, jSleeps>>
    /\ UNCHANGED othersJ

\* getContentFromJina rejects: lines 28-34 rethrow the error or start the
\* pause
JinaFails ==
    /\ jPc = "attempting"
    /\ \E error \in JinaErrors :
          /\ jErrors' = Append(jErrors, error)
          /\ IF shouldRethrow(getErrorStatus(error), jAttempt, retryLimitOf(jOptions))
             THEN /\ jPc' = "thrown"
                  /\ jResult' = [kind |-> "throw", error |-> error]
                  /\ UNCHANGED jSleeps
             ELSE /\ jPc' = "sleeping"
                  /\ jSleeps' = Append(jSleeps, jDelay)
                  /\ UNCHANGED jResult
    /\ UNCHANGED <<jOptions, jAttempt, jDelay, jCalls>>
    /\ UNCHANGED othersJ

\* the pause ends: line 35 doubles the delay, the loop steps and lines 24-26
\* make the next attempt, or line 39 returns '' when the loop is over
JinaWakes ==
    /\ jPc = "sleeping"
    /\ jDelay' = jDelay * 2
    /\ jAttempt' = jAttempt + 1
    /\ IF jAttempt + 1 <= retryLimitOf(jOptions)
       THEN /\ jPc' = "attempting"
            /\ jCalls' = jCalls + 1
            /\ UNCHANGED jResult
       ELSE /\ jPc' = "returned"
            /\ jResult' = [kind |-> "empty"]
            /\ UNCHANGED jCalls
    /\ UNCHANGED <<jOptions, jErrors, jSleeps>>
    /\ UNCHANGED othersJ

NextJ == JinaInvoke \/ JinaSucceeds \/ JinaFails \/ JinaWakes

SpecJina == InitJ /\ [][NextJ]_vars

(* ---- reference notions for the claim ---- *)

\* the retry limit and the first delay in force
LimitInForce ==
    IF jOptions = NoValue \/ jOptions.retryLimit = NoValue THEN 2
    ELSE jOptions.retryLimit.n
DelayInForce ==
    IF jOptions = NoValue \/ jOptions.retryDelayMs = NoValue THEN 2000
    ELSE jOptions.retryDelayMs.n

\* the HTTP status of the error is 429
RateLimited(error) ==
    \/ error.response = [n |-> 429]
    \/ error.response = NoValue /\ error.status = [n |-> 429]

RECURSIVE TwoToThe(_)
TwoToThe(k) == IF k = 0 THEN 1 ELSE 2 * TwoToThe(k - 1)

\* C27: getContentFromJinaWithRetry makes at most retryLimit + 1 attempts (3
\* by default); it retries only after an error of status 429, pausing
\* retryDelayMs before the first retry and twice the previous pause before
\* each later one; an error of any other status is rethrown at once, a 429 is
\* rethrown after the last allowed attempt, and the call returns as soon as
\* an attempt succeeds.
C27_RetryOn429Only ==
    /\ jCalls <= LimitInForce + 1 \/ jCalls = 0
    /\ jOptions = NoValue => jCalls <= 3
    /\ \A k \in 1..Len(jSleeps) :
          /\ RateLimited(jErrors[k])
          /\ jSleeps[k] = DelayInForce * TwoToThe(k - 1)
    /\ Len(jSleeps) = (IF jCalls = 0 THEN 0
                       ELSE IF jPc = "sleeping" THEN jCalls ELSE jCalls - 1)
    /\ \A k \in 1..Len(jErrors) :
          ~RateLimited(jErrors[k]) =>
              /\ k = Len(jErrors) /\ jPc = "thrown" /\ jResult.error = jErrors[k]
    /\ (jCalls > 0 /\ Len(jErrors) = LimitInForce + 1) =>
          /\ jPc = "thrown" /\ jResult.error = jErrors[Len(jErrors)]
    /\ jPc = "thrown" =>
          \/ ~RateLimited(jResult.error)
          \/ jCalls = LimitInForce + 1
    /\ (jPc = "returned" /\ jCalls > 0) =>
          /\ jResult.kind = "content"
          /\ Len(jErrors) = jCalls - 1
    /\ jPc = "attempting" => Len(jErrors) = jCalls - 1

\* under the default options two 429 errors are followed by pauses of 2000 ms
\* and 4000 ms, and the third attempt succeeds
C27_Witness ==
    /\ jOptions = NoValue
    /\ jPc = "returned" /\ jResult.kind = "content"
    /\ jCalls = 3
    /\ jSleeps = <<2000, 4000>>

------------------------------------------------------------------------------
(* worker/index.ts: the fetch and scheduled handlers as a state machine.  A  *)
(* request is [method, hostname, pathname, token] with the hostname and the  *)
(* pathname of new URL(request.url) and token what searchParams.get('token') *)
(* returns: NoValue (null) or [text |-> string].  The bindings are           *)
(* [TRIGGER_TOKEN |-> NoValue or [text |-> string]].  A response is          *)
(* [status, body]; a call of PODCAST_WORKFLOW.create is the params record.   *)

\* '/', '/trigger', '/trigger/', '/audio', '/static/a'
PathTrigger      == <<47, 116, 114, 105, 103, 103, 101, 114>>
PathTriggerSlash == <<47, 116, 114, 105, 103, 103, 101, 114, 47>>
PathAudio        == <<47, 97, 117, 100, 105, 111>>
PathAudioHtml    == <<47, 97, 117, 100, 105, 111, 46, 104, 116, 109, 108>>
PathStaticA      == <<47, 115, 116, 97, 116, 105, 99, 47, 97>>
PathStaticWord   == <<47, 115, 116, 97, 116, 105, 99>>

\* lines 11-36: the create call runWorkflow makes and the response it returns
runWorkflow(event) ==
    [response |-> [status |-> 200, body |-> "create workflow success"],
     created  |-> <<[nowIso      |-> IF event.kind = "scheduled"
                                     THEN [at |-> event.scheduledTime]
                                     ELSE [at |-> "now"],
                     windowMode  |-> IF event.kind = "scheduled" THEN "calendar"
                                     ELSE "rolling",
                     windowHours |-> IF event.kind = "scheduled" THEN NoValue
                                     ELSE [n |-> 48]]>>]

\* line 45 without the test of the binding
tokenRejected_unchecked(env, token) == token # env.TRIGGER_TOKEN

\* line 45: !env.TRIGGER_TOKEN || token !== env.TRIGGER_TOKEN
tokenRejected(env, token) ==
    \/ env.TRIGGER_TOKEN = NoValue
    \/ env.TRIGGER_TOKEN.text = ""
    \/ token # env.TRIGGER_TOKEN

\* lines 38-65
fetchHandler(request, env) ==
    IF request.method = "POST" /\ request.hostname = "localhost"
    THEN runWorkflow(request)
    ELSE IF request.pathname = PathTrigger /\ request.method = "POST"
    THEN IF tokenRejected(env, request.token)
         THEN [response |-> [status |-> 401, body |-> "Unauthorized"], created |-> <<>>]
         ELSE runWorkflow(request)
    ELSE IF request.pathname \in {PathAudio, PathAudioHtml}
    THEN [response |-> [status |-> 200, body |-> "asset"], created |-> <<>>]
    ELSE IF Includes(request.pathname, PathStaticWord)
    THEN [response |-> [status |-> 200, body |-> "file"], created |-> <<>>]
    ELSE [response |-> [status |-> 302, body |-> "redirect"], created |-> <<>>]

\* lines 66-84
scheduledHandler(event, hc) ==
    IF \/ FormatParts(event.scheduledTime, CHICAGO_TIMEZONE, hc).hour # 0
       \/ FormatParts(event.scheduledTime, CHICAGO_TIMEZONE, hc).minute # 30
    THEN [response |-> NoValue, created |-> <<>>]
    ELSE runWorkflow(event)

\* the tokens of a request and of the bindings
Tokens == {NoValue, [text |-> ""], [text |-> "s3cret"], [text |-> "guess"]}

Requests ==
    {[kind |-> "request", method |-> m, hostname |-> h, pathname |-> p, token |-> t] :
        m \in {"GET", "POST"}, h \in {"localhost", "pod.x.io"},
        p \in {PathRoot, PathTrigger, PathTriggerSlash, PathAudio, PathStaticA},
        t \in Tokens}

\* cron instants: minutes 0, 30 and 31 of every hour of the days examined
ScheduledEvents ==
    {[kind |-> "scheduled", scheduledTime |-> d * ONE_DAY_MS + h * HourMs + m * 60 * 1000] :
        d \in 0..MaxDay, h \in 0..23, m \in {0, 30, 31}}

InitK ==
    /\ kEnv \in {[TRIGGER_TOKEN |-> t] : t \in {NoValue, [text |-> ""], [text |-> "s3cret"]}}
    /\ kHc \in {"h23", "h24"}
    /\ kEvent = NoValue
    /\ kResponse = NoValue
    /\ kCreated = <<>>
    /\ IdleW /\ IdleU /\ IdleR /\ IdleE /\ IdleF /\ IdleD /\ IdleA /\ IdleJ /\ IdleH

\* fetch(request, env, ctx)
Fetch ==
    /\ kEvent = NoValue
    /\ \E request \in Requests :
          /\ kEvent' = request
          /\ kResponse' = fetchHandler(request, kEnv).response
          /\ kCreated' = fetchHandler(request, kEnv).created
    /\ UNCHANGED <<kEnv, kHc>>
    /\ UNCHANGED othersK

\* scheduled(event, env, ctx)
Scheduled ==
    /\ kEvent = NoValue
    /\ \E event \in ScheduledEvents :
          /\ kEvent' = event
          /\ kResponse' = scheduledHandler(event, kHc).response
          /\ kCreated' = scheduledHandler(event, kHc).created
    /\ UNCHANGED <<kEnv, kHc>>
    /\ UNCHANGED othersK

NextK == Fetch \/ Scheduled

SpecWorker == InitK /\ [][NextK]_vars

(* ---- reference notions for the claim ---- *)

\* the request carries the configured, non-empty token
TokenMatches ==
    /\ kEnv.TRIGGER_TOKEN # NoValue
    /\ kEnv.TRIGGER_TOKEN.text # ""
    /\ kEvent.token = kEnv.TRIGGER_TOKEN

\* the wall clock of America/Chicago shows 00:30 at the instant
ChicagoHalfPastMidnight(t) ==
    ((t + Offset(CHICAGO_TIMEZONE, t)) % ONE_DAY_MS) \div (60 * 1000) = 30

\* a workflow instance is created only for a POST on localhost or a POST to
\* /trigger with the configured token, and by the scheduled handler only at
\* 00:30 in America/Chicago
CreatedOnlyWhenAllowed ==
    kCreated # <<>> =>
        \/ /\ kEvent.kind = "request" /\ kEvent.method = "POST"
           /\ \/ kEvent.hostname = "localhost"
              \/ kEvent.pathname = PathTrigger /\ TokenMatches
        \/ /\ kEvent.kind = "scheduled"
           /\ ChicagoHalfPastMidnight(kEvent.scheduledTime)

\* the event is a POST to /trigger without the configured token
UnauthorizedTrigger ==
    /\ kEvent # NoValue /\ kEvent.kind = "request"
    /\ kEvent.method = "POST" /\ kEvent.pathname = PathTrigger
    /\ ~TokenMatches

\* C29 as stated: a workflow instance is created only for a POST on localhost
\* or a POST to /trigger with the configured non-empty token; every POST to
\* /trigger with a missing or wrong token, or with TRIGGER_TOKEN unset, gets
\* status 401 and creates no instance; the scheduled handler creates an
\* instance only at 00:30 in America/Chicago.
C29_TriggerAuthorization ==
    /\ CreatedOnlyWhenAllowed
    /\ UnauthorizedTrigger => (kResponse.status = 401 /\ kCreated = <<>>)

\* C29, amended: as above, the 401 being that of a POST to /trigger on a
\* hostname other than localhost.
C29_TriggerAuthorizationOffLocalhost ==
    /\ CreatedOnlyWhenAllowed
    /\ (UnauthorizedTrigger /\ kEvent.hostname # "localhost") =>
          (kResponse.status = 401 /\ kCreated = <<>>)

\* a POST to https://pod.x.io/trigger?token=guess against the token s3cret
\* is answered 401 and creates nothing
C29_Witness ==
    /\ kEvent # NoValue /\ kEvent.kind = "request"
    /\ kEvent.method = "POST" /\ kEvent.hostname = "pod.x.io"
    /\ kEvent.pathname = PathTrigger
    /\ kEvent.token = [text |-> "guess"]
    /\ kEnv.TRIGGER_TOKEN = [text |-> "s3cret"]
    /\ kResponse.status = 401 /\ kCreated = <<>>

------------------------------------------------------------------------------
(* workflow/index.ts: HackerNewsWorkflow.run as a state machine.  A step of *)
(* step.do either returns or throws; a throw is retried retries.limit times *)
(* and then fails the run.  The pauses of step.sleep belong to the step     *)
(* before them.                                                             *)

\* workflow/index.ts:138  retries.limit
retryLimit == 5

Effect(op, story) == [op |-> op, story |-> story]

StoryKey(id) == [kind |-> "story", n |-> id]
AudioKey(index) == [kind |-> "audio", n |-> index]
ContentKey == [kind |-> "content", n |-> 0]

\* a run that lacks the test of line 332
afterGetStories_unguarded(stories) == "get story"

\* lines 327-335: where the run goes once 'get stories' has returned
afterGetStories(stories) ==
    IF Len(stories) = 0 THEN "done" ELSE "get story"

\* a loop that ends after its first story
afterStore_first(stories, i) == "collect summaries"

\* lines 355-380: where the run goes after storing the summary of story i
afterStore(stories, i) ==
    IF i < Len(stories) THEN "get story" ELSE "collect summaries"

\* lines 472-568: the audio stage the run enters after 'create intro content'
audioStage(env, lines) ==
    IF env.skipTTS THEN "save content"
    ELSE IF env.gemini THEN "gemini audio"
    ELSE IF lines > 0 THEN "create audio" ELSE "collect audio"

\* the callback of the test step (lines 179-303): whether it returns
testStepReturns(testStep, stories) ==
    CASE testStep \in {"openai", "tts"} -> TRUE
      [] testStep = "story" -> Len(stories) > 0
      [] OTHER -> FALSE

WorkflowEnvs ==
    [testStep : {"", "openai", "tts", "story", "other"},
     skipTTS : BOOLEAN, gemini : BOOLEAN]

StoryIdLists == SeqsUpTo(1..MaxStories, MaxStories)

InitH ==
    /\ hEnv \in WorkflowEnvs
    /\ hPc = IF hEnv.testStep # "" THEN "test step" ELSE "get stories"
    /\ hStories = NoValue
    /\ hIndex = 0
    /\ hLines = 0
    /\ hAttempts = 0
    /\ hLog = <<>>
    /\ hKv = {}
    /\ IdleW /\ IdleU /\ IdleR /\ IdleE /\ IdleF /\ IdleD /\ IdleA /\ IdleJ /\ IdleK

\* the step at hand returns: the run moves to `pc`
Proceed(pc, effects) ==
    /\ hPc' = pc
    /\ hAttempts' = 0
    /\ hLog' = hLog \o effects

\* the callback of the step at hand throws: step.do retries it, or gives up
\* and run() throws
StepThrows ==
    /\ hPc \notin {"idle", "done", "failed"}
    /\ hAttempts' = IF hAttempts < retryLimit THEN hAttempts + 1 ELSE hAttempts
    /\ hPc' = IF hAttempts < retryLimit THEN hPc ELSE "failed"
    /\ UNCHANGED <<hEnv, hStories, hIndex, hLines, hLog, hKv>>
    /\ UNCHANGED othersH

\* lines 178-310: the step of WORKFLOW_TEST_STEP, then return
TestStep ==
    /\ hPc = "test step"
    /\ \E stories \in StoryIdLists :
          /\ testStepReturns(hEnv.testStep, stories)
          /\ Proceed("done", <<Effect("test", 0)>>)
    /\ UNCHANGED <<hEnv, hStories, hIndex, hLines, hKv>>
    /\ UNCHANGED othersH

\* lines 313-335: 'get stories' returns what getStoriesFromSources resolved with
GetStoriesStep ==
    /\ hPc = "get stories"
    /\ \E topStories \in StoryIdLists :
          /\ hStories' = [ids |-> topStories]
          /\ Proceed(afterGetStories(topStories), <<>>)
    /\ hIndex' = 1
    /\ UNCHANGED <<hEnv, hLines, hKv>>
    /\ UNCHANGED othersH

\* lines 357-360
GetStoryStep ==
    /\ hPc = "get story"
    /\ Proceed("summarize story", <<Effect("fetch", hStories.ids[hIndex])>>)
    /\ UNCHANGED <<hEnv, hStories, hIndex, hLines, hKv>>
    /\ UNCHANGED othersH

\* lines 364-374
SummarizeStep ==
    /\ hPc = "summarize story"
    /\ Proceed("store summary", <<Effect("summarize", hStories.ids[hIndex])>>)
    /\ UNCHANGED <<hEnv, hStories, hIndex, hLines, hKv>>
    /\ UNCHANGED othersH

\* lines 376-382: the summary goes to KV, the loop moves on
StoreSummaryStep ==
    /\ hPc = "store summary"
    /\ hKv' = hKv \cup {StoryKey(hStories.ids[hIndex])}
    /\ Proceed(afterStore(hStories.ids, hIndex), <<Effect("store", hStories.ids[hIndex])>>)
    /\ hIndex' = hIndex + 1
    /\ UNCHANGED <<hEnv, hStories, hLines>>
    /\ UNCHANGED othersH

\* lines 384-394
CollectSummariesStep ==
    /\ hPc = "collect summaries"
    /\ Proceed("podcast content", <<Effect("collect", 0)>>)
    /\ UNCHANGED <<hEnv, hStories, hIndex, hLines, hKv>>
    /\ UNCHANGED othersH

\* lines 396-408: the podcast text, of some number of lines
PodcastContentStep ==
    /\ hPc = "podcast content"
    /\ hLines' \in 0..MaxLines
    /\ Proceed("blog content", <<Effect("podcast", 0)>>)
    /\ UNCHANGED <<hEnv, hStories, hIndex, hKv>>
    /\ UNCHANGED othersH

\* lines 414-426
BlogContentStep ==
    /\ hPc = "blog content"
    /\ Proceed("intro content", <<Effect("blog", 0)>>)
    /\ UNCHANGED <<hEnv, hStories, hIndex, hLines, hKv>>
    /\ UNCHANGED othersH

\* lines 432-443, and the choice of the audio stage (lines 472-568)
IntroContentStep ==
    /\ hPc = "intro content"
    /\ Proceed(audioStage(hEnv, hLines), <<Effect("intro", 0)>>)
    /\ hIndex' = 0
    /\ UNCHANGED <<hEnv, hStories, hLines, hKv>>
    /\ UNCHANGED othersH

\* lines 482-498: one synthesis of the whole dialogue, uploaded to R2
GeminiAudioStep ==
    /\ hPc = "gemini audio"
    /\ Proceed("save content", <<Effect("tts", 0), Effect("upload", 0)>>)
    /\ UNCHANGED <<hEnv, hStories, hIndex, hLines, hKv>>
    /\ UNCHANGED othersH

\* lines 513-557: the audio of line hIndex, uploaded to R2, its url put in KV
CreateAudioStep ==
    /\ hPc = "create audio"
    /\ hKv' = hKv \cup {AudioKey(hIndex)}
    /\ Proceed(IF hIndex + 1 < hLines THEN "create audio" ELSE "collect audio",
               <<Effect("tts", 0), Effect("upload", 0)>>)
    /\ hIndex' = hIndex + 1
    /\ UNCHANGED <<hEnv, hStories, hLines>>
    /\ UNCHANGED othersH

\* lines 570-591
CollectAudioStep ==
    /\ hPc = "collect audio"
    /\ Proceed("concat audio", <<Effect("collect audio", 0)>>)
    /\ UNCHANGED <<hEnv, hStories, hIndex, hLines, hKv>>
    /\ UNCHANGED othersH

\* lines 593-616: with a browser binding the joined audio is uploaded to R2
ConcatAudioStep ==
    /\ hPc = "concat audio"
    /\ \E browser \in BOOLEAN :
          Proceed("save content", IF browser THEN <<Effect("upload", 0)>> ELSE <<>>)
    /\ UNCHANGED <<hEnv, hStories, hIndex, hLines, hKv>>
    /\ UNCHANGED othersH

\* lines 620-642
SaveContentStep ==
    /\ hPc = "save content"
    /\ hKv' = hKv \cup {ContentKey}
    /\ Proceed("clean up", <<Effect("content", 0)>>)
    /\ UNCHANGED <<hEnv, hStories, hIndex, hLines>>
    /\ UNCHANGED othersH

\* lines 646-687: the temporary keys are deleted, run() returns
CleanUpStep ==
    /\ hPc = "clean up"
    /\ hKv' = hKv \cap {ContentKey}
    /\ Proceed("done", <<Effect("clean up", 0)>>)
    /\ UNCHANGED <<hEnv, hStories, hIndex, hLines>>
    /\ UNCHANGED othersH

NextH ==
    \/ StepThrows \/ TestStep \/ GetStoriesStep \/ GetStoryStep \/ SummarizeStep
    \/ StoreSummaryStep \/ CollectSummariesStep \/ PodcastContentStep
    \/ BlogContentStep \/ IntroContentStep \/ GeminiAudioStep \/ CreateAudioStep
    \/ CollectAudioStep \/ ConcatAudioStep \/ SaveContentStep \/ CleanUpStep

SpecWorkflow == InitH /\ [][NextH]_vars

(* ---- reference notions for the claim ---- *)

\* the effects a run performs on its stories and its output
OutputEffects ==
    {"fetch", "summarize", "store", "podcast", "blog", "intro", "tts", "upload",
     "content"}

\* C11: when getStoriesFromSources returns an empty list the run ends
\* normally: 'get stories' succeeds and is not retried, the run returns, and
\* no story fetch, summarization, TTS, audio upload or write of the content
\* key happens in that run.
C11_EmptyRunEnds ==
    (hStories # NoValue /\ Len(hStories.ids) = 0) =>
        /\ hPc = "done"
        /\ \A k \in 1..Len(hLog) : hLog[k].op \notin OutputEffects
        /\ ContentKey \notin hKv

\* a run whose 'get stories' step returned the empty list, and that returned
C11_Witness ==
    /\ hStories # NoValue /\ Len(hStories.ids) = 0
    /\ hEnv.testStep = ""
    /\ hPc = "done"

\* the effects of the loop over the stories, in the order they happened
StoryEffects == SelectSeq(hLog, LAMBDA e : e.op \in {"fetch", "summarize", "store"})

\* the k-th effect of a loop that takes the stories in list order: content
\* fetch, summarization, storing of the summary
LoopEffect(k) ==
    Effect(CASE (k - 1) % 3 = 0 -> "fetch"
             [] (k - 1) % 3 = 1 -> "summarize"
             [] OTHER -> "store",
           hStories.ids[(k - 1) \div 3 + 1])

\* the positions of the log that hold the operation
PositionsOfOp(op) == {k \in 1..Len(hLog) : hLog[k].op = op}

\* C30: in a run with at least one story the steps follow a fixed order:
\* for each story, in list order, content fetch, summarization, storing of
\* its summary under its temporary key; the content record is written only
\* after every summary is stored and the podcast, blog and intro texts are
\* made; the temporary keys are deleted only after the content record is
\* written.
C30_StepOrder ==
    (hStories # NoValue /\ Len(hStories.ids) > 0) =>
        /\ Len(StoryEffects) <= 3 * Len(hStories.ids)
        /\ \A k \in 1..Len(StoryEffects) : StoryEffects[k] = LoopEffect(k)
        /\ \A i \in 1..Len(hStories.ids) :
              (Len(StoryEffects) >= 3 * i /\ PositionsOfOp("clean up") = {}) =>
                  StoryKey(hStories.ids[i]) \in hKv
        /\ \A c \in PositionsOfOp("content") :
              /\ Len(SelectSeq(SubSeq(hLog, 1, c), LAMBDA e : e.op = "store"))
                     = Len(hStories.ids)
              /\ \A op \in {"podcast", "blog", "intro"} :
                    \E k \in PositionsOfOp(op) : k < c
              /\ ContentKey \in hKv
        /\ \A d \in PositionsOfOp("clean up") :
              \E c \in PositionsOfOp("content") : c < d
        /\ (\E i \in 1..Len(hStories.ids) :
                Len(StoryEffects) >= 3 * i /\ StoryKey(hStories.ids[i]) \notin hKv) =>
              ContentKey \in hKv

\* a run over two stories has returned: both summaries were stored before
\* the content record, and the temporary keys are gone
C30_Witness ==
    /\ hStories # NoValue /\ hStories.ids = <<1, 2>>
    /\ hPc = "done"
    /\ Len(StoryEffects) = 6
    /\ hKv = {ContentKey}

====
